---- MODULE Spec2Model ----
(***************************************************************************)
(* BrandCurator: the catalog state held by App.tsx (collections of stores  *)
(* and folios, the active collection, the filter state) and the handlers   *)
(* that change it.  Strings are sequences of one-character strings, so     *)
(* that trim(), toLowerCase(), length, includes() and the sentinel regular *)
(* expression are computed the way the JavaScript computes them.           *)
(***************************************************************************)
EXTENDS Integers, Sequences, FiniteSets, Bags, TLC

VARIABLES
    showLanding,            \* App.tsx:67
    user,                   \* App.tsx:63   (the userId, or null)
    collections,            \* App.tsx:70
    activeCollectionId,     \* App.tsx:71
    showArchived,           \* App.tsx:73
    isEnrichmentModalOpen,  \* App.tsx:79
    selectedStoreIds,       \* App.tsx:80
    filters,                \* App.tsx:115
    importModalConfig,      \* App.tsx:82
    nextId,                 \* the number of the next crypto.randomUUID() result
    isFirebaseConfigured,   \* App.tsx:38   (fixed for the whole session)
    isSetupOpen,            \* App.tsx:77
    generatingImageIds,     \* App.tsx:85
    pendingGenerations,     \* the bag of handleGenerateImage calls awaiting generateAestheticImage
    remote,                 \* the setDoc and deleteDoc calls issued so far
    fileName,               \* FileUpload.tsx:13
    error,                  \* FileUpload.tsx:14
    isProcessing,           \* FileUpload.tsx:15
    reader,                 \* FileUpload.tsx:32: the FileReader reads in progress
    scheduler,              \* FileUpload.tsx:37: the callbacks handed to the scheduler
    uploadLog,              \* history: what each accepted file selection has led to
    last                    \* history: the last handler run, its arguments and the state it ran in

vars == <<showLanding, user, collections, activeCollectionId, showArchived,
          isEnrichmentModalOpen, selectedStoreIds, filters, importModalConfig,
          nextId, isFirebaseConfigured, isSetupOpen, generatingImageIds,
          pendingGenerations, remote, fileName, error, isProcessing, reader,
          scheduler, uploadLog, last>>

\* the state of image generation
imageState == <<generatingImageIds, pendingGenerations>>

\* the state of the FileUpload component
fileUploadState == <<fileName, error, isProcessing, reader, scheduler, uploadLog>>

\* the state only the session, image and upload handlers write
sideState == <<isFirebaseConfigured, isSetupOpen, imageState, fileUploadState>>

----------------------------------------------------------------------------
(* JavaScript values *)

\* a reference that holds no object (useState<... | null>(null))
null == "null"

\* a string-valued property that is absent from the object
undefined == <<"undefined">>

\* an optional boolean property is "true", "false" or "undefined"
absent == "undefined"

\* the object {} (no own property)
emptyObject == [k \in {} |-> <<>>]

\* JavaScript truthiness of a string-valued property: !!s
truthy(s) == s # undefined /\ s # <<>>

\* JavaScript truthiness of an optional boolean property: !!b
truthyFlag(b) == b = "true"

WhiteSpace == {" ", "\t", "\n"}

UpperCase == <<"A","B","C","D","E","F","G","H","I","J","K","L","M",
               "N","O","P","Q","R","S","T","U","V","W","X","Y","Z">>

LowerCase == <<"a","b","c","d","e","f","g","h","i","j","k","l","m",
               "n","o","p","q","r","s","t","u","v","w","x","y","z">>

\* the lower-case letter of every upper-case letter
LowerOf ==
    [c \in {UpperCase[i] : i \in 1..Len(UpperCase)} |->
        LowerCase[CHOOSE i \in 1..Len(UpperCase) : UpperCase[i] = c]]

toLowerCaseChar(c) == IF c \in DOMAIN LowerOf THEN LowerOf[c] ELSE c

\* String.prototype.toLowerCase
toLowerCase(s) == [i \in 1..Len(s) |-> toLowerCaseChar(s[i])]

RECURSIVE trimStart(_)
trimStart(s) ==
    IF s # <<>> /\ Head(s) \in WhiteSpace THEN trimStart(Tail(s)) ELSE s

RECURSIVE trimEnd(_)
trimEnd(s) ==
    IF s # <<>> /\ s[Len(s)] \in WhiteSpace
    THEN trimEnd(SubSeq(s, 1, Len(s) - 1))
    ELSE s

\* String.prototype.trim
trim(s) == trimEnd(trimStart(s))

\* String.prototype.includes
includes(s, sub) ==
    \E i \in 0..(Len(s) - Len(sub)) : SubSeq(s, i + 1, i + Len(sub)) = sub

\* Array.prototype.includes
arrayIncludes(arr, x) == \E i \in 1..Len(arr) : arr[i] = x

\* the alternatives of /^(none|n\/a|na|false)$/i
NonValues == { <<"n","o","n","e">>, <<"n","/","a">>, <<"n","a">>,
               <<"f","a","l","s","e">> }

\* /^(none|n\/a|na|false)$/i.test(s): the whole of s, letters compared without case
nonValueTest(s) == toLowerCase(s) \in NonValues

\* the minimum meaningful length of a description
MinDescriptionLength == 10

----------------------------------------------------------------------------
(* utils/textFormatter: formatDescription normalises white space without   *)
(* truncating: leading and trailing white space is dropped and every inner *)
(* run of white space becomes one blank.                                   *)

RECURSIVE collapseWhiteSpace(_)
collapseWhiteSpace(s) ==
    IF s = <<>> THEN <<>>
    ELSE IF Head(s) \in WhiteSpace
         THEN <<" ">> \o collapseWhiteSpace(trimStart(s))
         ELSE <<Head(s)>> \o collapseWhiteSpace(Tail(s))

formatDescription(text) == collapseWhiteSpace(trim(text))

----------------------------------------------------------------------------
(* The catalog *)

\* collections.find(c => c.id === id) finds one
hasCollection(colls, id) == \E i \in 1..Len(colls) : colls[i].id = id

\* collections.find(c => c.id === id): the first one with that id
findCollection(colls, id) ==
    colls[CHOOSE i \in 1..Len(colls) :
             /\ colls[i].id = id
             /\ \A j \in 1..(i - 1) : colls[j].id # id]

\* activeCollection is not null
hasActiveCollection == hasCollection(collections, activeCollectionId)

activeCollection == findCollection(collections, activeCollectionId)

\* the tree below the LandingPage and LoginModal early returns is rendered
rendered == ~showLanding /\ user # null

\* saveCollection's setCollections update: nothing without a user; otherwise
\* replace the collection of the same id, or append when there is none
saveCollection(updatedCollection) ==
    IF user = null THEN collections
    ELSE IF \E i \in 1..Len(collections) : collections[i].id = updatedCollection.id
         THEN [i \in 1..Len(collections) |->
                 IF collections[i].id = updatedCollection.id
                 THEN updatedCollection ELSE collections[i]]
         ELSE Append(collections, updatedCollection)

\* a write to the remote store: setDoc or deleteDoc on a document of path
remoteWrite(op, path) == [op |-> op, path |-> path]

\* the user whose writes go to the remote store
persisted(userId) == isFirebaseConfigured /\ userId # "guest"

\* saveCollection's setDoc: issued for a user that is persisted
savedRemotely(updatedCollection) ==
    IF user = null THEN remote
    ELSE IF persisted(user)
         THEN remote \cup {remoteWrite("setDoc", "collections")}
         ELSE remote

\* a call of saveCollection
save(updatedCollection) ==
    /\ collections' = saveCollection(updatedCollection)
    /\ remote' = savedRemotely(updatedCollection)

----------------------------------------------------------------------------
(* handleEnrichComplete: the non-destructive merge *)

\* mutant of websiteEmpty: every website counts as empty
websiteEmpty_always(s) == TRUE

\* const websiteEmpty = !s.website || /^(none|n\/a|na|false)$/i.test(s.website.trim())
websiteEmpty(s) ==
    IF ~truthy(s.website) THEN TRUE ELSE nonValueTest(trim(s.website))

\* mutant of descEmpty: the length test is dropped
descEmpty_noLength(s) ==
    IF ~truthy(s.description) THEN TRUE
    ELSE toLowerCase(trim(s.description)) \in NonValues

\* const descEmpty = !s.description || s.description.length < 10
\*                   || /^(none|n\/a|na|false)$/i.test(s.description.trim())
descEmpty(s) ==
    IF ~truthy(s.description) THEN TRUE
    ELSE IF Len(s.description) < MinDescriptionLength THEN TRUE
    ELSE nonValueTest(trim(s.description))

\* enrichedStores.find(e => e.id === s.id) finds one
hasEnriched(enrichedStores, s) ==
    \E i \in 1..Len(enrichedStores) : enrichedStores[i].id = s.id

\* enrichedStores.find(e => e.id === s.id): the first entry with the store's id
findEnriched(enrichedStores, s) ==
    enrichedStores[CHOOSE i \in 1..Len(enrichedStores) :
                      /\ enrichedStores[i].id = s.id
                      /\ \A j \in 1..(i - 1) : enrichedStores[j].id # s.id]

\* updated.website after "if (enriched.website && websiteEmpty) ..."
updatedWebsite(s, enriched) ==
    IF truthy(enriched.website) /\ websiteEmpty(s)
    THEN enriched.website ELSE s.website

\* updated.description after "if (enriched.description && descEmpty) ..."
updatedDescription(s, enriched) ==
    IF truthy(enriched.description) /\ descEmpty(s)
    THEN formatDescription(enriched.description) ELSE s.description

\* mutant of enrichStore: the enriched entry is spread over the store
enrichStore_spread(s, enrichedStores) ==
    IF \E i \in 1..Len(enrichedStores) : enrichedStores[i].id = s.id
    THEN enrichedStores[CHOOSE i \in 1..Len(enrichedStores) :
                           enrichedStores[i].id = s.id]
    ELSE s

\* the callback of activeCollection.stores.map in handleEnrichComplete
enrichStore(s, enrichedStores) ==
    IF ~hasEnriched(enrichedStores, s) THEN s
    ELSE LET enriched == findEnriched(enrichedStores, s)
         IN  [s EXCEPT !.website = updatedWebsite(s, enriched),
                       !.description = updatedDescription(s, enriched)]

\* const updatedStores = activeCollection.stores.map(...)
enrichedUpdatedStores(stores, enrichedStores) ==
    [i \in 1..Len(stores) |-> enrichStore(stores[i], enrichedStores)]

----------------------------------------------------------------------------
(* utils/localization, utils/priceMapper, utils/textFormatter              *)

str_par == <<"p","a","r">>

\* the localisation table: a key with an entry is shown as its text
Translations == [k \in {str_par} |-> <<"P","a","r","i","s">>]

\* t(key): the localised text of the key, the key itself when it has none
t(key) == IF key \in DOMAIN Translations THEN Translations[key] ELSE key

\* the four price buckets
Buckets == {"low", "mid", "high", "ultra"}

\* what the classifier returns for a price it cannot classify
Unclassified == "unclassified"

\* getPriceBucket: the symbolic tiers map to the buckets, a bucket id maps to
\* itself, anything else is unclassified
getPriceBucket(priceRange) ==
    CASE priceRange = "$" -> "low"
      [] priceRange = "$$" -> "mid"
      [] priceRange = "$$$" -> "high"
      [] priceRange = "$$$$" -> "ultra"
      [] priceRange \in Buckets -> priceRange
      [] OTHER -> Unclassified

\* the characters in the order of their code units
CodeOrder == <<"\t", "\n", " ", "$", ".", "/", ":">> \o UpperCase \o LowerCase

CodeOf ==
    [c \in {CodeOrder[i] : i \in 1..Len(CodeOrder)} |->
        CHOOSE i \in 1..Len(CodeOrder) : CodeOrder[i] = c]

charCode(c) == CodeOf[c]

\* comparison of two strings by code units: -1, 0 or 1
RECURSIVE compareStrings(_, _)
compareStrings(a, b) ==
    IF a = <<>> /\ b = <<>> THEN 0
    ELSE IF a = <<>> THEN -1
    ELSE IF b = <<>> THEN 1
    ELSE IF charCode(Head(a)) < charCode(Head(b)) THEN -1
    ELSE IF charCode(Head(a)) > charCode(Head(b)) THEN 1
    ELSE compareStrings(Tail(a), Tail(b))

\* normalizeStoreName: trimmed, inner white space collapsed; the comparison
\* key ignores case
normalizeStoreName(name) == toLowerCase(collapseWhiteSpace(trim(name)))

\* compareStoreNames: by the normalised names, ties broken by the raw strings
compareStoreNames(a, b) ==
    LET byKey == compareStrings(normalizeStoreName(a), normalizeStoreName(b))
    IN  IF byKey # 0 THEN byKey ELSE compareStrings(a, b)

----------------------------------------------------------------------------
(* filteredStores *)

\* const searchLower = search.trim().toLowerCase()
searchLower(search) == toLowerCase(trim(search))

\* mutant of matchesSearch: the search term is not trimmed
matchesSearch_untrimmed(store, search) ==
    \/ toLowerCase(search) = <<>>
    \/ includes(toLowerCase(store.store_name), toLowerCase(search))
    \/ includes(toLowerCase(t(store.city)), toLowerCase(search))
    \/ includes(toLowerCase(t(store.country)), toLowerCase(search))
    \/ \E i \in 1..Len(store.tags) :
          includes(toLowerCase(store.tags[i]), toLowerCase(search))

\* const matchesSearch = !searchLower || (store_name ... || city ... ||
\*                       country ... || store.tags.some(...))
matchesSearch(store, search) ==
    LET term == searchLower(search)
    IN  \/ term = <<>>
        \/ includes(toLowerCase(store.store_name), term)
        \/ includes(toLowerCase(t(store.city)), term)
        \/ includes(toLowerCase(t(store.country)), term)
        \/ \E i \in 1..Len(store.tags) : includes(toLowerCase(store.tags[i]), term)

\* mutant of matchesArchive: archived stores stay in the active view
matchesArchive_activeShowsAll(store, archivedView) ==
    IF archivedView THEN truthyFlag(store.isArchived) ELSE TRUE

\* const matchesArchive = showArchived ? !!store.isArchived : !store.isArchived
matchesArchive(store, archivedView) ==
    IF archivedView THEN truthyFlag(store.isArchived)
    ELSE ~truthyFlag(store.isArchived)

\* mutant of matchesTags: one selected tag is enough
matchesTags_some(store, selectedTags) ==
    \/ Len(selectedTags) = 0
    \/ \E i \in 1..Len(selectedTags) : arrayIncludes(store.tags, selectedTags[i])

\* const matchesTags = selectedTags.length === 0
\*                     || selectedTags.every(tag => store.tags?.includes(tag))
matchesTags(store, selectedTags) ==
    \/ Len(selectedTags) = 0
    \/ \A i \in 1..Len(selectedTags) : arrayIncludes(store.tags, selectedTags[i])

\* const matchesSale = !onSale || !!store.onSale
matchesSale(store, onSale) == ~onSale \/ truthyFlag(store.onSale)

\* mutant of matchesPrice: the raw price is compared, not its bucket
matchesPrice_raw(store, priceRanges) ==
    \/ Len(priceRanges) = 0
    \/ arrayIncludes(priceRanges, store.priceRange)

\* mutant of matchesPrice: the bucket has to equal every selected bucket
matchesPrice_every(store, priceRanges) ==
    \/ Len(priceRanges) = 0
    \/ /\ store.priceRange # ""
       /\ \A i \in 1..Len(priceRanges) :
             priceRanges[i] = getPriceBucket(store.priceRange)

\* const matchesPrice = priceRanges.length === 0 || (!!store.priceRange
\*                      && priceRanges.includes(getPriceBucket(store.priceRange)))
matchesPrice(store, priceRanges) ==
    \/ Len(priceRanges) = 0
    \/ /\ store.priceRange # ""
       /\ arrayIncludes(priceRanges, getPriceBucket(store.priceRange))

\* store.customFields[field] || []
storeValues(store, field) ==
    IF field \in DOMAIN store.customFields
    THEN store.customFields[field] ELSE <<>>

\* mutant of matchesCustomFields: every requested option is required
matchesCustomFields_every(store, customFields) ==
    \A field \in DOMAIN customFields :
        \/ Len(customFields[field]) = 0
        \/ \A i \in 1..Len(customFields[field]) :
              arrayIncludes(storeValues(store, field), customFields[field][i])

\* const matchesCustomFields = Object.entries(customFields).every(...)
matchesCustomFields(store, customFields) ==
    \A field \in DOMAIN customFields :
        \/ Len(customFields[field]) = 0
        \/ \E i \in 1..Len(customFields[field]) :
              arrayIncludes(storeValues(store, field), customFields[field][i])

\* the callback of activeCollection.stores.filter
storeMatches(store, f, archivedView) ==
    /\ matchesSearch(store, f.search)
    /\ matchesArchive(store, archivedView)
    /\ matchesTags(store, f.tags)
    /\ matchesSale(store, f.onSale)
    /\ matchesPrice(store, f.priceRanges)
    /\ matchesCustomFields(store, f.customFields)

\* insertion of a store behind the stores that do not sort after it
RECURSIVE insertSorted(_, _)
insertSorted(sorted, store) ==
    IF sorted = <<>> THEN <<store>>
    ELSE IF compareStoreNames(Head(sorted).store_name, store.store_name) <= 0
         THEN <<Head(sorted)>> \o insertSorted(Tail(sorted), store)
         ELSE <<store>> \o sorted

\* mutant of sortByName: the matching stores are left in list order
sortByName_unsorted(stores) == stores

\* Array.prototype.sort((a, b) => compareStoreNames(a.store_name, b.store_name)),
\* a stable sort
RECURSIVE sortByName(_)
sortByName(stores) ==
    IF stores = <<>> THEN <<>>
    ELSE insertSorted(sortByName(SubSeq(stores, 1, Len(stores) - 1)),
                      stores[Len(stores)])

\* activeCollection.stores.filter(...).sort(...)
filterAndSort(stores, f, archivedView) ==
    sortByName(SelectSeq(stores, LAMBDA store : storeMatches(store, f, archivedView)))

\* mutant of storesAfterFiltering: the stores are sorted where they are
storesAfterFiltering_sortedInPlace(stores, f, archivedView) == sortByName(stores)

\* the array the memo reads, once the memo has run: filter() returns a new
\* array and sort() sorts that one in place, so the one read is as it was
storesAfterFiltering(stores, f, archivedView) == stores

\* the filteredStores memo
filteredStores ==
    IF ~hasActiveCollection \/ user = null THEN <<>>
    ELSE filterAndSort(activeCollection.stores, filters, showArchived)

----------------------------------------------------------------------------
(* Values the handlers are run on *)

str_NA == <<"N","/","A">>
str_na_padded == <<" ","n","a"," ">>
str_a_co == <<"a",".","c","o">>
str_x_com == <<"h","t","t","p",":","/","/","x",".","c","o","m">>
str_ok == <<"o","k">>
str_blanks10 == <<" "," "," "," "," "," "," "," "," "," ">>
str_none_padded == <<" "," "," ","n","o","n","e"," "," "," "," ">>
str_fine_goods == <<"F","i","n","e"," ","g","o","o","d","s">>
str_new_longer_text == <<"n","e","w"," ","l","o","n","g","e","r"," ","t","e","x","t">>
str_raw_text == <<" ","r","a","w"," "," ","t","e","x","t"," ">>
str_Acme == <<"A","c","m","e">>
str_acme == <<"a","c","m","e">>
str_Zed == <<"Z","e","d">>
str_zed == <<"z","e","d">>
str_vegan == <<"v","e","g","a","n">>
str_sale == <<"s","a","l","e">>
str_Paris == <<"P","a","r","i","s">>

\* a store with every field of the Store type set
Store(id, collectionId, store_name, website, description) ==
    [ id |-> id, collectionId |-> collectionId, store_name |-> store_name,
      website |-> website, description |-> description,
      city |-> str_Paris, country |-> <<>>, tags |-> <<str_vegan>>,
      priceRange |-> "$$", onSale |-> absent, isArchived |-> absent,
      customFields |-> emptyObject, imageUrl |-> undefined, addedBy |-> "u1",
      sustainability |-> <<>>, rating |-> 0 ]

\* the website values a stored store may carry
ExistingWebsites ==
    { undefined, <<>>, <<" ">>, str_NA, str_na_padded, str_a_co }

\* the description values a stored store may carry
ExistingDescriptions ==
    { undefined, <<>>, str_ok, str_blanks10, str_none_padded, str_fine_goods }

\* the enrichment source's answers: (website, description)
EnrichedFields ==
    { <<str_x_com, str_new_longer_text>>,
      <<undefined, <<>> >>,
      <<<<>>, str_raw_text>> }

\* store-shaped enrichment results; every field other than website and
\* description differs from what the stored stores hold
EnrichedEntries ==
    { [ Store(id, "cX", str_Zed, f[1], f[2])
          EXCEPT !.tags = <<str_sale>>, !.isArchived = "true",
                 !.imageUrl = str_a_co, !.addedBy = "u9",
                 !.priceRange = "$" ] :
        id \in {"s1", "s2", "s9"}, f \in EnrichedFields }

\* the longest enrichment result
MaxEnriched == 2

EnrichedResults ==
    UNION { [1..n -> EnrichedEntries] : n \in 0..MaxEnriched }

\* the collections the first snapshot delivers: c1 holds s1 (any stored
\* website and description) and s2 (website "N/A", description "ok") and a
\* folio; c2 is another collection of the same owner
MergeSnapshots ==
    { << [ id |-> "c1",
           stores |-> << Store("s1", "c1", str_Acme, w, d),
                         Store("s2", "c1", str_Zed, str_NA, str_ok) >>,
           folios |-> << [id |-> "f1", storeIds |-> <<"s1", "s7">>] >> ],
         [ id |-> "c2",
           stores |-> << Store("s3", "c2", str_acme, <<>>, <<>>) >>,
           folios |-> <<>> ] >> :
        w \in ExistingWebsites, d \in ExistingDescriptions }

str_Sale == <<"S","a","l","e">>
str_VEG == <<"V","E","G">>
str_Zedia == <<"Z","e","d","i","a">>

\* the stores a filtered collection is made of
FilterStore(id, k) ==
    CASE k = 1 ->
           [ Store(id, "c1", str_Zed, <<>>, <<>>)
               EXCEPT !.tags = <<str_vegan>>, !.priceRange = "$$$",
                      !.city = str_par,
                      !.customFields = ("Style" :> <<"boho">>) ]
      [] k = 2 ->
           [ Store(id, "c1", str_Acme, <<>>, <<>>)
               EXCEPT !.tags = <<str_vegan, str_sale>>, !.priceRange = "",
                      !.city = <<>>, !.isArchived = "true", !.onSale = "true",
                      !.customFields = ("Style" :> <<"boho">>) ]
      [] k = 3 ->
           [ Store(id, "c1", str_acme, <<>>, <<>>)
               EXCEPT !.tags = <<str_Sale>>, !.priceRange = "free",
                      !.city = <<>>, !.country = str_Zedia,
                      !.isArchived = "false", !.onSale = "false",
                      !.customFields = ("Style" :> <<"boho", "chic">>) @@ ("Size" :> <<"xl">>) ]
      [] OTHER ->
           [ Store(id, "c1", str_VEG, <<>>, <<>>)
               EXCEPT !.tags = <<>>, !.priceRange = "low", !.city = <<>>,
                      !.customFields = ("Style" :> <<"chic">>) ]

\* the kinds of store above
StoreKinds == {1, 2, 3, 4}

\* the longest store list of a filtered collection
MaxStores == 2

StoreId(i) == CASE i = 1 -> "s1" [] i = 2 -> "s2" [] i = 3 -> "s3" [] OTHER -> "s4"

\* the collections the first snapshot delivers: one collection of up to
\* MaxStores stores with distinct ids
FilterSnapshots ==
    { << [ id |-> "c1",
           stores |-> [i \in 1..Len(kinds) |-> FilterStore(StoreId(i), kinds[i])],
           folios |-> <<>> ] >> :
        kinds \in UNION { [1..m -> StoreKinds] : m \in 0..MaxStores } }

Searches ==
    { <<>>, <<" ", " ">>, str_zed, <<" ", "V", "E", "G", " ">>, <<"r", "i", "s">> }

TagSelections == { <<>>, <<str_vegan>>, <<str_vegan, str_sale>> }

PriceSelections == { <<>>, <<"high">>, <<"low", "high">> }

CustomFieldSelections ==
    { emptyObject,
      ("Style" :> <<>>),
      ("Style" :> <<"chic", "boho">>),
      ("Style" :> <<"boho">>) @@ ("Size" :> <<"xl">>) }

\* how many facets of a filter state differ from NoFilters
activeFacets(f) ==
    (IF f.search # <<>> THEN 1 ELSE 0) + (IF f.tags # <<>> THEN 1 ELSE 0)
    + (IF f.onSale THEN 1 ELSE 0) + (IF f.priceRanges # <<>> THEN 1 ELSE 0)
    + (IF f.customFields # emptyObject THEN 1 ELSE 0)

\* the most facets set at once
MaxActiveFacets == 2

\* the filter states the search box and the filter sidebar set
FilterStates ==
    { f \in [ search : Searches, tags : TagSelections, onSale : BOOLEAN,
              priceRanges : PriceSelections,
              customFields : CustomFieldSelections ] :
        activeFacets(f) <= MaxActiveFacets }

\* getInitialFiltersFromUrl on a URL without parameters
NoFilters ==
    [ search |-> <<>>, tags |-> <<>>, onSale |-> FALSE, priceRanges |-> <<>>,
      customFields |-> emptyObject ]

----------------------------------------------------------------------------
(* State machine *)

Init ==
    /\ showLanding = TRUE
    /\ user = null
    /\ collections = <<>>
    /\ activeCollectionId = null
    /\ showArchived = FALSE
    /\ isEnrichmentModalOpen = FALSE
    /\ selectedStoreIds = {}
    /\ filters = NoFilters
    /\ importModalConfig = [isOpen |-> FALSE, mode |-> "import"]
    /\ nextId = 1
    /\ isFirebaseConfigured \in BOOLEAN
    /\ isSetupOpen = FALSE
    /\ generatingImageIds = {}
    /\ pendingGenerations = EmptyBag
    /\ remote = {}
    /\ fileName = <<>>
    /\ error = ""
    /\ isProcessing = FALSE
    /\ reader = {}
    /\ scheduler = {}
    /\ uploadLog = <<>>
    /\ last = [op |-> "Init"]

\* onAuthStateChanged for a signed-in Firebase user whose stored profile
\* names storedActive as its active collection (null: none stored)
onAuthStateChanged(uid, storedActive) ==
    /\ isFirebaseConfigured
    /\ user = null
    /\ user' = uid
    /\ showLanding' = FALSE
    /\ activeCollectionId' =
          IF storedActive # null THEN storedActive ELSE activeCollectionId
    /\ last' = [op |-> "onAuthStateChanged"]
    /\ UNCHANGED <<collections, showArchived, isEnrichmentModalOpen,
                   selectedStoreIds, filters,
                   importModalConfig, nextId, sideState, remote>>

\* the onSnapshot callback.  It closes over the activeCollectionId of the
\* render that registered it (null), so a non-empty snapshot always makes
\* its first collection active.  Only the first snapshot is taken: the
\* remote documents change through this client alone.
onSnapshot(syncedCollections) ==
    /\ isFirebaseConfigured
    /\ user \notin {null, "guest"}
    /\ collections = <<>>
    /\ collections' = syncedCollections
    /\ activeCollectionId' =
          IF Len(syncedCollections) > 0
          THEN syncedCollections[1].id ELSE activeCollectionId
    /\ last' = [op |-> "onSnapshot"]
    /\ UNCHANGED <<showLanding, user, showArchived, isEnrichmentModalOpen,
                   selectedStoreIds, filters,
                   importModalConfig, nextId, sideState, remote>>

\* BulkActionBar onEnrich
onEnrich ==
    /\ rendered
    /\ ~isEnrichmentModalOpen
    /\ isEnrichmentModalOpen' = TRUE
    /\ last' = [op |-> "onEnrich"]
    /\ UNCHANGED <<showLanding, user, collections, activeCollectionId,
                   showArchived, selectedStoreIds, filters,
                   importModalConfig, nextId, sideState, remote>>

\* EnrichmentModal onComplete = handleEnrichComplete; the modal is rendered
\* only with an active collection and isEnrichmentModalOpen
handleEnrichComplete(enrichedStores) ==
    /\ rendered
    /\ isEnrichmentModalOpen
    /\ hasActiveCollection
    /\ save(
            [activeCollection EXCEPT
               !.stores = enrichedUpdatedStores(activeCollection.stores,
                                                enrichedStores)])
    /\ isEnrichmentModalOpen' = FALSE
    /\ selectedStoreIds' = {}
    /\ last' = [ op |-> "handleEnrichComplete",
                 enrichedStores |-> enrichedStores,
                 collections |-> collections,
                 activeCollectionId |-> activeCollectionId ]
    /\ UNCHANGED <<showLanding, user, activeCollectionId, showArchived,
                   filters,
                   importModalConfig, nextId, sideState>>

NextMerge ==
    \/ \E stored \in {null, "c2"} : onAuthStateChanged("u1", stored)
    \/ \E synced \in MergeSnapshots : onSnapshot(synced)
    \/ onEnrich
    \/ \E enrichedStores \in EnrichedResults : handleEnrichComplete(enrichedStores)

SpecMerge == Init /\ [][NextMerge]_vars

\* two filter states differ in one facet
oneFacetApart(f, g) ==
    Cardinality({ k \in DOMAIN f : f[k] # g[k] }) = 1

\* setFilters: the search box ({...filters, search}) and the sidebar's
\* onFilterChange, each changing one facet
setFilters(f) ==
    /\ rendered
    /\ oneFacetApart(f, filters)
    /\ filters' = f
    /\ last' = [op |-> "setFilters"]
    /\ UNCHANGED <<showLanding, user, collections, activeCollectionId,
                   showArchived, isEnrichmentModalOpen, selectedStoreIds,
                   importModalConfig, nextId, sideState, remote>>

\* setShowArchived: the switch between the active and the archived view
setShowArchived(b) ==
    /\ rendered
    /\ b # showArchived
    /\ showArchived' = b
    /\ last' = [op |-> "setShowArchived"]
    /\ UNCHANGED <<showLanding, user, collections, activeCollectionId,
                   isEnrichmentModalOpen, selectedStoreIds, filters,
                   importModalConfig, nextId, sideState, remote>>

\* activeCollection.stores.map(s => s.id === storeId ? {...s, isArchived: archive} : s)
archivedUpdatedStores(stores, storeId, archive) ==
    [i \in 1..Len(stores) |->
        IF stores[i].id = storeId
        THEN [stores[i] EXCEPT !.isArchived = IF archive THEN "true" ELSE "false"]
        ELSE stores[i]]

\* StoreList onArchive / onRestore = handleArchiveStore(id, true / false)
handleArchiveStore(storeId, archive) ==
    /\ rendered
    /\ IF ~hasActiveCollection THEN UNCHANGED <<collections, remote>>
       ELSE save(
                 [activeCollection EXCEPT
                    !.stores = archivedUpdatedStores(activeCollection.stores,
                                                     storeId, archive)])
    /\ last' = [ op |-> "handleArchiveStore",
                 storeId |-> storeId, archive |-> archive ]
    /\ UNCHANGED <<showLanding, user, activeCollectionId, showArchived,
                   isEnrichmentModalOpen, selectedStoreIds, filters,
                   importModalConfig, nextId, sideState>>

NextFilter ==
    \/ onAuthStateChanged("u1", null)
    \/ \E synced \in FilterSnapshots : onSnapshot(synced)
    \/ \E f \in FilterStates : setFilters(f)
    \/ \E b \in BOOLEAN : setShowArchived(b)

SpecFilter == Init /\ [][NextFilter]_vars

\* the search box alone: setFilters({ ...filters, search: e.target.value })
NextArchive ==
    \/ onAuthStateChanged("u1", null)
    \/ \E synced \in FilterSnapshots : onSnapshot(synced)
    \/ \E search \in Searches : setFilters([filters EXCEPT !.search = search])
    \/ \E b \in BOOLEAN : setShowArchived(b)
    \/ \E storeId \in {"s1", "s2", "s9"}, archive \in BOOLEAN :
          handleArchiveStore(storeId, archive)

SpecArchive == Init /\ [][NextArchive]_vars

----------------------------------------------------------------------------
(* Adding, editing, importing and deleting stores *)

\* LIMITS.MAX_STORES_PER_COLLECTION, scaled down
MAX_STORES_PER_COLLECTION == 2

\* how many identifiers crypto.randomUUID() hands out in one run
MaxIds == 3

\* the k-th result of crypto.randomUUID(): different from every other
\* result and from every identifier the snapshot delivers
randomUUID(k) == "n" \o ToString(k)

\* { ...base, ...overrides }: an object spread, later keys win
spread(base, overrides) == overrides @@ base

\* array.slice(0, n)
slice(array, n) == SubSeq(array, 1, IF Len(array) < n THEN Len(array) ELSE n)

\* the fields handleAddStore writes after the spread of storeData
addedStoreFields(storeData, id, collectionId, userId) ==
    [ id |-> id, collectionId |-> collectionId, addedBy |-> userId,
      customFields |-> emptyObject, rating |-> 0,
      priceRange |-> IF "priceRange" \in DOMAIN storeData
                        /\ storeData.priceRange # ""
                     THEN storeData.priceRange ELSE "",
      sustainability |-> <<>>, description |-> <<>>, country |-> <<>>,
      city |-> <<>>,
      tags |-> IF "tags" \in DOMAIN storeData THEN storeData.tags ELSE <<>> ]

\* const newStore = { ...storeData, id: crypto.randomUUID(), ... }
newStore(storeData, id, collectionId, userId) ==
    spread(storeData, addedStoreFields(storeData, id, collectionId, userId))

\* activeCollection.stores.map(s => s.id === updatedStore.id ? updatedStore : s)
editedStores(stores, updatedStore) ==
    [i \in 1..Len(stores) |->
        IF stores[i].id = updatedStore.id THEN updatedStore ELSE stores[i]]

\* s.tags.map(t => t.toLowerCase().trim())
importedTags(tags) == [i \in 1..Len(tags) |-> trim(toLowerCase(tags[i]))]

\* one element of fullStores: { ...s, tags, priceRange, id, collectionId,
\* addedBy, favoritedBy, privateNotes, customFields: s.customFields || {} }
fullStore(s, uuid, id, userId) ==
    spread(s, [ tags |-> importedTags(s.tags),
                priceRange |-> getPriceBucket(s.priceRange),
                id |-> uuid, collectionId |-> id, addedBy |-> userId,
                customFields |-> IF "customFields" \in DOMAIN s
                                 THEN s.customFields ELSE emptyObject ])

\* stores.map(s => ({ ...s, ..., id: crypto.randomUUID(), ... }))
fullStores(stores, id, userId, firstId) ==
    [i \in 1..Len(stores) |->
        fullStore(stores[i], randomUUID(firstId + i - 1), id, userId)]

\* collections.find(c => c.id === id) || activeCollection
targetColl(id) ==
    IF hasCollection(collections, id) THEN findCollection(collections, id)
    ELSE activeCollection

\* mutant of baseStores: the target's stores are kept in both modes
baseStores_kept(mode, target) == target.stores

\* importModalConfig.mode === 'import' ? [] : targetColl.stores
baseStores(mode, target) == IF mode = "import" THEN <<>> ELSE target.stores

\* mutant of importedCollection: the new list is not cut
importedCollection_uncut(stores, id, mode, userId, firstId) ==
    [ targetColl(id) EXCEPT
        !.stores = baseStores(mode, targetColl(id))
                     \o fullStores(stores, id, userId, firstId) ]

\* { ...targetColl, stores: [...baseStores, ...fullStores].slice(0, MAX) }
importedCollection(stores, id, mode, userId, firstId) ==
    [ targetColl(id) EXCEPT
        !.stores = slice(baseStores(mode, targetColl(id))
                           \o fullStores(stores, id, userId, firstId),
                         MAX_STORES_PER_COLLECTION) ]

\* sampleStores (sampleData): the stores the sample loader adds
sampleStores ==
    << [ Store("sample1", "sample", str_Zed, str_x_com, str_fine_goods)
           EXCEPT !.addedBy = "sample" ],
       [ Store("sample2", "sample", str_acme, str_a_co, str_fine_goods)
           EXCEPT !.addedBy = "sample" ] >>

\* sampleStores.map(s => ({ ...s, id: crypto.randomUUID(),
\*   collectionId: activeCollection.id, addedBy, ... }))
sampleWithMeta(collectionId, userId, firstId) ==
    [i \in 1..Len(sampleStores) |->
        spread(sampleStores[i],
               [ id |-> randomUUID(firstId + i - 1),
                 collectionId |-> collectionId, addedBy |-> userId ])]

\* activeCollection.stores.filter(s => s.id !== storeId)
deletedStores(stores, storeId) ==
    SelectSeq(stores, LAMBDA s : s.id # storeId)

\* state the catalog handlers leave alone
viewState == <<showLanding, user, showArchived, filters, sideState>>

\* AddStoreModal onAddStore = handleAddStore
handleAddStore(storeData) ==
    /\ rendered
    /\ nextId <= MaxIds
    /\ hasActiveCollection
    /\ save(
            [activeCollection EXCEPT
               !.stores = Append(@, newStore(storeData, randomUUID(nextId),
                                             activeCollection.id, user))])
    /\ nextId' = nextId + 1
    /\ last' = [op |-> "handleAddStore", storeData |-> storeData]
    /\ UNCHANGED <<viewState, activeCollectionId, isEnrichmentModalOpen,
                   selectedStoreIds, importModalConfig>>

\* EditModal onSave / AddStoreModal onUpdateStore = handleEditStore
handleEditStore(updatedStore) ==
    /\ rendered
    /\ hasActiveCollection
    /\ save(
            [activeCollection EXCEPT
               !.stores = editedStores(@, updatedStore)])
    /\ last' = [op |-> "handleEditStore"]
    /\ UNCHANGED <<viewState, activeCollectionId, isEnrichmentModalOpen,
                   selectedStoreIds, importModalConfig, nextId>>

\* ProfilePage onOpenImportModal
onOpenImportModal(mode) ==
    /\ rendered
    /\ ~importModalConfig.isOpen
    /\ importModalConfig' = [isOpen |-> TRUE, mode |-> mode]
    /\ last' = [op |-> "onOpenImportModal"]
    /\ UNCHANGED <<viewState, collections, activeCollectionId,
                   isEnrichmentModalOpen, selectedStoreIds, nextId, remote>>

\* ImportModal onComplete; the modal is rendered only while
\* importModalConfig.isOpen with an active collection
onComplete(stores, id) ==
    /\ rendered
    /\ importModalConfig.isOpen
    /\ hasActiveCollection
    /\ nextId + Len(stores) - 1 <= MaxIds
    /\ save(importedCollection(stores, id, importModalConfig.mode,
                                            user, nextId))
    /\ importModalConfig' = [importModalConfig EXCEPT !.isOpen = FALSE]
    /\ activeCollectionId' = id
    /\ nextId' = nextId + Len(stores)
    /\ last' = [ op |-> "onComplete", stores |-> stores, id |-> id,
                 mode |-> importModalConfig.mode ]
    /\ UNCHANGED <<viewState, isEnrichmentModalOpen, selectedStoreIds>>

\* ProfilePage onLoadSampleData
onLoadSampleData ==
    /\ rendered
    /\ hasActiveCollection
    /\ nextId + Len(sampleStores) - 1 <= MaxIds
    /\ save(
            [activeCollection EXCEPT
               !.stores = slice(@ \o sampleWithMeta(activeCollection.id, user,
                                                    nextId),
                                MAX_STORES_PER_COLLECTION)])
    /\ nextId' = nextId + Len(sampleStores)
    /\ last' = [op |-> "onLoadSampleData"]
    /\ UNCHANGED <<viewState, activeCollectionId, isEnrichmentModalOpen,
                   selectedStoreIds, importModalConfig>>

\* StoreList onDeletePermanently / EditModal onDelete = handleDeleteStore
handleDeleteStore(storeId) ==
    /\ rendered
    /\ hasActiveCollection
    /\ save(
            [activeCollection EXCEPT !.stores = deletedStores(@, storeId)])
    /\ last' = [op |-> "handleDeleteStore", storeId |-> storeId]
    /\ UNCHANGED <<viewState, activeCollectionId, isEnrichmentModalOpen,
                   selectedStoreIds, importModalConfig, nextId>>

\* Header onSwitchCollection = setActiveCollectionId
onSwitchCollection(id) ==
    /\ rendered
    /\ id # activeCollectionId
    /\ hasCollection(collections, id)
    /\ activeCollectionId' = id
    /\ last' = [op |-> "onSwitchCollection"]
    /\ UNCHANGED <<viewState, collections, isEnrichmentModalOpen,
                   selectedStoreIds, importModalConfig, nextId, remote>>

str_Vegan_padded == <<" ","V","e","g","a","n">>

\* what AddStoreModal hands to handleAddStore: a form with every field
\* filled in (and an id, a collection and an author of its own), and a form
\* with the name alone
AddPayloads ==
    { [ Store("s1", "cX", str_Zed, str_a_co, str_fine_goods)
          EXCEPT !.country = str_Zedia, !.sustainability = str_ok,
                 !.rating = 5, !.customFields = ("Style" :> <<"boho">>),
                 !.tags = <<str_Sale>>, !.addedBy = "u9" ],
      [ store_name |-> str_acme, website |-> undefined, onSale |-> absent,
        isArchived |-> absent, imageUrl |-> undefined ] }

\* the rows ImportModal parses, in file order: raw tags, raw prices
ParsedRow(i) ==
    IF i % 2 = 1
    THEN [ Store("row", "cX", str_Zed, str_a_co, str_fine_goods)
             EXCEPT !.tags = <<str_Vegan_padded, str_vegan>>,
                    !.priceRange = "$$$", !.addedBy = "u9" ]
    ELSE [ Store("row", "cX", str_acme, undefined, <<>>)
             EXCEPT !.tags = <<>>, !.priceRange = "free", !.addedBy = "u9" ]

\* the longest import
MaxImported == 3

\* the imports: the first n rows of the file
ImportedStores == { [i \in 1..n |-> ParsedRow(i)] : n \in 0..MaxImported }

\* the target ids ImportModal passes: a collection, or an id no collection has
ImportTargets == { "c1", "c2", "cX" }

\* the collections the first snapshot delivers: c1 with one store or with
\* MAX_STORES_PER_COLLECTION stores, and the empty c2
CatalogSnapshots ==
    { << [ id |-> "c1",
           stores |-> [i \in 1..n |->
                         Store(StoreId(i), "c1", str_Acme, str_NA, str_ok)],
           folios |-> << [id |-> "f1", storeIds |-> <<"s1">>] >> ],
         [ id |-> "c2", stores |-> <<>>, folios |-> <<>> ] >> :
        n \in {1, MAX_STORES_PER_COLLECTION} }

\* what EditModal hands to handleEditStore: a store of the list, renamed
EditedStores(stores) ==
    { [stores[i] EXCEPT !.store_name = str_Zed] : i \in 1..Len(stores) }

\* every handler that writes stores, run on c1; imports name c1 or an id no
\* collection has
NextCatalog ==
    \/ onAuthStateChanged("u1", null)
    \/ \E synced \in CatalogSnapshots : onSnapshot(synced)
    \/ \E storeData \in AddPayloads : handleAddStore(storeData)
    \/ \E updatedStore \in
            (IF hasActiveCollection THEN EditedStores(activeCollection.stores)
             ELSE {}) :
          handleEditStore(updatedStore)
    \/ \E mode \in {"import", "append"} : onOpenImportModal(mode)
    \/ \E stores \in ImportedStores, id \in ImportTargets \ {"c2"} :
          onComplete(stores, id)
    \/ onLoadSampleData
    \/ onEnrich
    \/ \E e \in { x \in EnrichedEntries : x.id = "s1" /\ x.website = str_x_com } :
          handleEnrichComplete(<<e>>)
    \/ \E archive \in BOOLEAN : handleArchiveStore("s1", archive)
    \/ \E storeId \in {"s1", "n1"} : handleDeleteStore(storeId)

SpecCatalog == Init /\ [][NextCatalog]_vars

\* imports into any collection, in both modes, after manual adds
NextImport ==
    \/ onAuthStateChanged("u1", null)
    \/ \E synced \in CatalogSnapshots : onSnapshot(synced)
    \/ \E storeData \in AddPayloads : handleAddStore(storeData)
    \/ \E mode \in {"import", "append"} : onOpenImportModal(mode)
    \/ \E stores \in ImportedStores, id \in ImportTargets : onComplete(stores, id)
    \/ \E id \in {"c1", "c2"} : onSwitchCollection(id)

SpecImport == Init /\ [][NextImport]_vars

----------------------------------------------------------------------------
(* Folios and deletion *)

\* Array.from(new Set(array)): the first occurrence of every element, in order
RECURSIVE arrayFromSet(_)
arrayFromSet(array) ==
    IF array = <<>> THEN <<>>
    ELSE LET front == arrayFromSet(SubSeq(array, 1, Len(array) - 1))
             x == array[Len(array)]
         IN  IF arrayIncludes(front, x) THEN front ELSE Append(front, x)

\* (activeCollection.folios || []).map(f => f.id === folioId ? change(f) : f),
\* for a change that sets storeIds
withFolioStoreIds(folios, folioId, storeIds) ==
    [i \in 1..Len(folios) |->
        IF folios[i].id = folioId
        THEN [folios[i] EXCEPT !.storeIds = storeIds] ELSE folios[i]]

\* the storeIds of the folios with that id, as handleDropToFolio maps them
droppedFolios(folios, storeId, folioId) ==
    [i \in 1..Len(folios) |->
        IF folios[i].id = folioId
        THEN [folios[i] EXCEPT !.storeIds = arrayFromSet(Append(@, storeId))]
        ELSE folios[i]]

\* ... storeIds: f.storeIds.filter(id => id !== storeId)
removedFromFolios(folios, storeId, folioId) ==
    [i \in 1..Len(folios) |->
        IF folios[i].id = folioId
        THEN [folios[i] EXCEPT !.storeIds = SelectSeq(@, LAMBDA id : id # storeId)]
        ELSE folios[i]]

\* ... storeIds: Array.from(new Set([...f.storeIds, ...Array.from(selectedStoreIds)]))
bulkAddedFolios(folios, folioId, selected) ==
    [i \in 1..Len(folios) |->
        IF folios[i].id = folioId
        THEN [folios[i] EXCEPT !.storeIds = arrayFromSet(@ \o selected)]
        ELSE folios[i]]

\* the orders in which a Set can hold its elements
setOrders(set) ==
    { order \in [1..Cardinality(set) -> set] :
        \A i, j \in 1..Cardinality(set) : order[i] = order[j] => i = j }

\* folios.map(f => ({ ...f, storeIds: f.storeIds.filter(id => !selectedStoreIds.has(id)) }))
bulkDeletedFolios(folios, selected) ==
    [i \in 1..Len(folios) |->
        [folios[i] EXCEPT !.storeIds = SelectSeq(@, LAMBDA id : id \notin selected)]]

\* StoreList onToggleSelection, for a store the list shows
onToggleSelection(id) ==
    /\ rendered
    /\ \E i \in 1..Len(filteredStores) : filteredStores[i].id = id
    /\ selectedStoreIds' =
          IF id \in selectedStoreIds
          THEN selectedStoreIds \ {id} ELSE selectedStoreIds \cup {id}
    /\ last' = [op |-> "onToggleSelection"]
    /\ UNCHANGED <<viewState, collections, activeCollectionId,
                   isEnrichmentModalOpen, importModalConfig, nextId, remote>>

\* FolioSection onAddFolio = handleFolioAdd
handleFolioAdd ==
    /\ rendered
    /\ hasActiveCollection
    /\ nextId <= MaxIds
    /\ save(
            [activeCollection EXCEPT
               !.folios = Append(@, [id |-> randomUUID(nextId),
                                     storeIds |-> <<>>])])
    /\ nextId' = nextId + 1
    /\ last' = [op |-> "handleFolioAdd"]
    /\ UNCHANGED <<viewState, activeCollectionId, isEnrichmentModalOpen,
                   selectedStoreIds, importModalConfig>>

\* FolioSection onDeleteFolio = handleDeleteFolio
handleDeleteFolio(folioId) ==
    /\ rendered
    /\ hasActiveCollection
    /\ save(
            [activeCollection EXCEPT
               !.folios = SelectSeq(@, LAMBDA f : f.id # folioId)])
    /\ last' = [op |-> "handleDeleteFolio"]
    /\ UNCHANGED <<viewState, activeCollectionId, isEnrichmentModalOpen,
                   selectedStoreIds, importModalConfig, nextId>>

\* handleDropToFolio
handleDropToFolio(storeId, folioId) ==
    /\ rendered
    /\ hasActiveCollection
    /\ save(
            [activeCollection EXCEPT
               !.folios = droppedFolios(@, storeId, folioId)])
    /\ last' = [op |-> "handleDropToFolio", storeId |-> storeId,
                folioId |-> folioId]
    /\ UNCHANGED <<viewState, activeCollectionId, isEnrichmentModalOpen,
                   selectedStoreIds, importModalConfig, nextId>>

\* FolioSection onSyncFolio = handleSyncFolioStores
handleSyncFolioStores(folioId, storeIds) ==
    /\ rendered
    /\ hasActiveCollection
    /\ save(
            [activeCollection EXCEPT
               !.folios = withFolioStoreIds(@, folioId, storeIds)])
    /\ last' = [op |-> "handleSyncFolioStores"]
    /\ UNCHANGED <<viewState, activeCollectionId, isEnrichmentModalOpen,
                   selectedStoreIds, importModalConfig, nextId>>

\* FolioSection onRemoveFromFolio = handleRemoveFromFolio
handleRemoveFromFolio(storeId, folioId) ==
    /\ rendered
    /\ hasActiveCollection
    /\ save(
            [activeCollection EXCEPT
               !.folios = removedFromFolios(@, storeId, folioId)])
    /\ last' = [op |-> "handleRemoveFromFolio"]
    /\ UNCHANGED <<viewState, activeCollectionId, isEnrichmentModalOpen,
                   selectedStoreIds, importModalConfig, nextId>>

\* FolioSection onClearFolio = handleClearFolio
handleClearFolio(folioId) ==
    /\ rendered
    /\ hasActiveCollection
    /\ save(
            [activeCollection EXCEPT
               !.folios = withFolioStoreIds(@, folioId, <<>>)])
    /\ last' = [op |-> "handleClearFolio"]
    /\ UNCHANGED <<viewState, activeCollectionId, isEnrichmentModalOpen,
                   selectedStoreIds, importModalConfig, nextId>>

\* BulkActionBar onAddToFolio = handleBulkAddToFolio; selected is
\* Array.from(selectedStoreIds), the selection in the order it was made
handleBulkAddToFolio(folioId) ==
    /\ rendered
    /\ hasActiveCollection
    /\ \E selected \in setOrders(selectedStoreIds) :
          save(
              [activeCollection EXCEPT
                 !.folios = bulkAddedFolios(@, folioId, selected)])
    /\ selectedStoreIds' = {}
    /\ last' = [op |-> "handleBulkAddToFolio"]
    /\ UNCHANGED <<viewState, activeCollectionId, isEnrichmentModalOpen,
                   importModalConfig, nextId>>

\* ConfirmationModal onConfirm = handleBulkDelete
handleBulkDelete ==
    /\ rendered
    /\ hasActiveCollection
    /\ save(
            [activeCollection EXCEPT
               !.stores = SelectSeq(@, LAMBDA s : s.id \notin selectedStoreIds),
               !.folios = bulkDeletedFolios(@, selectedStoreIds)])
    /\ selectedStoreIds' = {}
    /\ last' = [op |-> "handleBulkDelete"]
    /\ UNCHANGED <<viewState, activeCollectionId, isEnrichmentModalOpen,
                   importModalConfig, nextId>>

\* ProfilePage onClearCollection
onClearCollection(collectionId) ==
    /\ rendered
    /\ hasCollection(collections, collectionId)
    /\ save(
            [findCollection(collections, collectionId) EXCEPT !.stores = <<>>])
    /\ last' = [op |-> "onClearCollection"]
    /\ UNCHANGED <<viewState, activeCollectionId, isEnrichmentModalOpen,
                   selectedStoreIds, importModalConfig, nextId>>

\* the collections the first snapshot delivers: c1 with two stores, of
\* which a folio holds the first
FolioSnapshots ==
    { << [ id |-> "c1",
           stores |-> << Store("s1", "c1", str_Acme, str_NA, str_ok),
                         Store("s2", "c1", str_Zed, str_NA, str_ok) >>,
           folios |-> << [id |-> "f1", storeIds |-> <<"s1">>] >> ] >> }

\* the longest list FolioSection hands to handleSyncFolioStores
MaxSynced == 2

\* the lists FolioSection hands to handleSyncFolioStores
SyncedStoreIds == UNION { [1..n -> {"s1", "s2"}] : n \in 0..MaxSynced }

NextFolio ==
    \/ onAuthStateChanged("u1", null)
    \/ \E synced \in FolioSnapshots : onSnapshot(synced)
    \/ \E id \in {"s1", "s2"} : onToggleSelection(id)
    \/ handleFolioAdd
    \/ \E folioId \in {"f1", "n1"} : handleDeleteFolio(folioId)
    \/ \E storeId \in {"s1", "s2"} : handleDropToFolio(storeId, "f1")
    \/ \E storeIds \in SyncedStoreIds : handleSyncFolioStores("f1", storeIds)
    \/ \E storeId \in {"s1", "s2"} : handleRemoveFromFolio(storeId, "f1")
    \/ handleClearFolio("f1")
    \/ handleBulkAddToFolio("f1")
    \/ handleBulkDelete
    \/ \E storeId \in {"s1", "s2"} : handleDeleteStore(storeId)
    \/ onClearCollection("c1")
    \/ onOpenImportModal("import")
    \/ \E stores \in ImportedStores : onComplete(stores, "c1")

SpecFolio == Init /\ [][NextFolio]_vars

----------------------------------------------------------------------------
(* handleGenerateImage: the image-generation side channel *)

\* how many handleGenerateImage calls await generateAestheticImage at once
MaxPending == 2

str_dataUrlPrefix ==
    << "d", "a", "t", "a", ":", "i", "m", "a", "g", "e", "/", "p", "n", "g",
       ";", "b", "a", "s", "e", "6", "4", "," >>

\* `data:image/png;base64,${base64Data}`
dataUrl(base64Data) == str_dataUrlPrefix \o base64Data

\* what generateAestheticImage resolves to
Base64Images == { <<"Q", "Q", "=", "=">> }

\* activeCollection?.stores.find(s => s.id === storeId) finds a store
hasStore(storeId) ==
    /\ hasActiveCollection
    /\ \E i \in 1..Len(activeCollection.stores) :
          activeCollection.stores[i].id = storeId

\* activeCollection.stores.map(s => s.id === storeId ? { ...s, imageUrl } : s)
imageUpdatedStores(stores, storeId, imageUrl) ==
    [i \in 1..Len(stores) |->
        IF stores[i].id = storeId
        THEN spread(stores[i], "imageUrl" :> imageUrl)
        ELSE stores[i]]

\* the collection a settled call saves.  The call closes over the
\* activeCollection of the render it was started in and spreads that one.
generatedCollection(call, base64Data) ==
    [call.activeCollection EXCEPT
       !.stores = imageUpdatedStores(@, call.storeId, dataUrl(base64Data))]

\* mutant of generatingAfter: the set is emptied
generatingAfter_cleared(ids, storeId) == {}

\* finally: setGeneratingImageIds(prev => { next.delete(storeId) })
generatingAfter(ids, storeId) == ids \ {storeId}

\* StoreList onGenerateImage = handleGenerateImage, up to the await.  Without
\* the store (or an active collection) it returns at once.
handleGenerateImage(storeId) ==
    /\ rendered
    /\ BagCardinality(pendingGenerations) < MaxPending
    /\ IF hasStore(storeId)
       THEN /\ generatingImageIds' = generatingImageIds \cup {storeId}
            /\ pendingGenerations' =
                  pendingGenerations (+)
                    SetToBag({[ storeId |-> storeId,
                                activeCollection |-> activeCollection ]})
       ELSE UNCHANGED imageState
    /\ last' = [ op |-> "handleGenerateImage", storeId |-> storeId,
                 started |-> hasStore(storeId) ]
    /\ UNCHANGED <<showLanding, user, collections, activeCollectionId,
                   showArchived, isEnrichmentModalOpen, selectedStoreIds,
                   filters, importModalConfig, nextId, isFirebaseConfigured,
                   isSetupOpen, remote, fileUploadState>>

\* mutant of settledCollection: the collection is saved after a rejection too
settledCollection_alwaysSaved(call, base64Data, resolved) ==
    <<generatedCollection(call, base64Data)>>

\* what the call saves once generateAestheticImage has settled: the try
\* block's collection when it resolved, nothing when it rejected
settledCollection(call, base64Data, resolved) ==
    IF resolved THEN <<generatedCollection(call, base64Data)>> ELSE <<>>

\* the rest of handleGenerateImage, run when a pending call's
\* generateAestheticImage settles: try (resolved) or catch, then finally
generationSettled(call, base64Data, resolved) ==
    /\ BagIn(call, pendingGenerations)
    /\ LET saved == settledCollection(call, base64Data, resolved)
       IN  IF saved = <<>> THEN UNCHANGED <<collections, remote>>
           ELSE save(saved[1])
    /\ generatingImageIds' = generatingAfter(generatingImageIds, call.storeId)
    /\ pendingGenerations' = pendingGenerations (-) SetToBag({call})
    /\ last' = [ op |-> "generationSettled", resolved |-> resolved,
                 storeId |-> call.storeId ]
    /\ UNCHANGED <<showLanding, user, activeCollectionId, showArchived,
                   isEnrichmentModalOpen, selectedStoreIds, filters,
                   importModalConfig, nextId, isFirebaseConfigured,
                   isSetupOpen, fileUploadState>>

\* generateAestheticImage resolves
generationResolved(base64Data) ==
    \E call \in BagToSet(pendingGenerations) :
        generationSettled(call, base64Data, TRUE)

\* generateAestheticImage rejects
generationRejected ==
    \E call \in BagToSet(pendingGenerations) :
        generationSettled(call, <<>>, FALSE)

\* image generation among handlers that save stores of the same collection
NextImage ==
    \/ onAuthStateChanged("u1", null)
    \/ \E synced \in { s \in CatalogSnapshots :
                         Len(s[1].stores) = MAX_STORES_PER_COLLECTION } :
          onSnapshot(synced)
    \/ \E storeId \in {"s1", "s2", "s9"} : handleGenerateImage(storeId)
    \/ \E base64Data \in Base64Images : generationResolved(base64Data)
    \/ generationRejected
    \/ \E updatedStore \in
            (IF hasActiveCollection
             THEN { e \in EditedStores(activeCollection.stores) : e.id = "s1" }
             ELSE {}) :
          handleEditStore(updatedStore)
    \/ handleArchiveStore("s1", TRUE)
    \/ handleDeleteStore("s2")

SpecImage == Init /\ [][NextImage]_vars

----------------------------------------------------------------------------
(* components/FileUpload: reading and parsing a selected file *)

\* how many files are accepted in one run
MaxSelections == 2

str_dot_csv == <<".", "c", "s", "v">>
str_a_csv == <<"a">> \o str_dot_csv
str_b_csv == <<"b">> \o str_dot_csv
str_c_txt == <<"c", ".", "t", "x", "t">>
str_d_csv_txt == <<"d">> \o str_dot_csv \o <<".", "t", "x", "t">>
str_E_CSV == <<"E", ".", "C", "S", "V">>

\* String.prototype.endsWith
endsWith(s, suffix) ==
    /\ Len(s) >= Len(suffix)
    /\ SubSeq(s, Len(s) - Len(suffix) + 1, Len(s)) = suffix

\* event.target.files and event.dataTransfer.files: no file, or one
FileLists ==
    { <<>>,
      << [type |-> "text/csv", name |-> str_a_csv] >>,
      << [type |-> "", name |-> str_b_csv] >>,
      << [type |-> "text/csv", name |-> str_c_txt] >>,
      << [type |-> "text/plain", name |-> str_d_csv_txt] >>,
      << [type |-> "application/vnd.ms-excel", name |-> str_E_CSV] >> }

\* mutant of isCsv: every file passes
isCsv_any(file) == TRUE

\* the negation of file.type !== 'text/csv' && !file.name.endsWith('.csv')
isCsv(file) == file.type = "text/csv" \/ endsWith(file.name, str_dot_csv)

\* how the scheduled callback's try block ends: parseCSV returns and
\* onFileUpload is called, or an Error or another value is thrown before
ParseOutcomes ==
    { [returned |-> TRUE],
      [returned |-> FALSE, isError |-> TRUE, message |-> "Missing header row"],
      [returned |-> FALSE, isError |-> FALSE] }

\* the message the catch block sets
caughtMessage(outcome) ==
    IF outcome.isError THEN outcome.message
    ELSE "An unknown error occurred during parsing."

\* handleFileChange with the input's files.  An accepted file is the next
\* entry of uploadLog and its number names its read.
handleFileChange(files) ==
    /\ IF Len(files) = 0
       THEN UNCHANGED fileUploadState
       ELSE IF ~isCsv(files[1])
       THEN /\ error' = "Invalid file type. Please upload a CSV file."
            /\ fileName' = <<>>
            /\ UNCHANGED <<isProcessing, reader, scheduler, uploadLog>>
       ELSE /\ fileName' = files[1].name
            /\ error' = ""
            /\ isProcessing' = TRUE
            /\ reader' = reader \cup {Len(uploadLog) + 1}
            /\ uploadLog' =
                  Append(uploadLog,
                         [ file |-> files[1], parsed |-> FALSE, uploads |-> 0,
                           errors |-> 0 ])
            /\ UNCHANGED scheduler
    /\ last' = [ op |-> "handleFileChange", files |-> files ]
    /\ UNCHANGED <<showLanding, user, collections, activeCollectionId,
                   showArchived, isEnrichmentModalOpen, selectedStoreIds,
                   filters, importModalConfig, nextId, isFirebaseConfigured,
                   isSetupOpen, imageState, remote>>

\* the input's onChange; the input is disabled while isProcessing
onChange(files) ==
    /\ ~isProcessing
    /\ Len(uploadLog) < MaxSelections
    /\ handleFileChange(files)

\* the label's onDrop = handleDrop: nothing while isProcessing, otherwise
\* the dropped files become the input's and its change event is dispatched
handleDrop(files) ==
    /\ Len(uploadLog) < MaxSelections
    /\ IF isProcessing
       THEN /\ last' = [ op |-> "handleDrop", files |-> files ]
            /\ UNCHANGED <<showLanding, user, collections, activeCollectionId,
                           showArchived, isEnrichmentModalOpen,
                           selectedStoreIds, filters, importModalConfig,
                           nextId, isFirebaseConfigured, isSetupOpen,
                           imageState, remote, fileUploadState>>
       ELSE handleFileChange(files)

\* reader.onload: the text is read and the parse is handed to the scheduler
onload(k) ==
    /\ k \in reader
    /\ reader' = reader \ {k}
    /\ scheduler' = scheduler \cup {k}
    /\ last' = [ op |-> "onload", selection |-> k ]
    /\ UNCHANGED <<showLanding, user, collections, activeCollectionId,
                   showArchived, isEnrichmentModalOpen, selectedStoreIds,
                   filters, importModalConfig, nextId, isFirebaseConfigured,
                   isSetupOpen, imageState, remote, fileName, error,
                   isProcessing, uploadLog>>

\* the read fails: the reader has no onerror (or onabort) handler, so
\* nothing runs
onerror(k) ==
    /\ k \in reader
    /\ reader' = reader \ {k}
    /\ last' = [ op |-> "onerror", selection |-> k ]
    /\ UNCHANGED <<showLanding, user, collections, activeCollectionId,
                   showArchived, isEnrichmentModalOpen, selectedStoreIds,
                   filters, importModalConfig, nextId, isFirebaseConfigured,
                   isSetupOpen, imageState, remote, fileName, error,
                   isProcessing, scheduler, uploadLog>>

\* the callback the scheduler runs: try, catch, finally
scheduledCallback(k, outcome) ==
    /\ k \in scheduler
    /\ scheduler' = scheduler \ {k}
    /\ IF outcome.returned
       THEN /\ uploadLog' =
                  [uploadLog EXCEPT ![k].parsed = TRUE, ![k].uploads = @ + 1]
            /\ UNCHANGED <<fileName, error>>
       ELSE /\ error' = caughtMessage(outcome)
            /\ fileName' = <<>>
            /\ uploadLog' = [uploadLog EXCEPT ![k].errors = @ + 1]
    /\ isProcessing' = FALSE
    /\ last' = [ op |-> "scheduledCallback", selection |-> k,
                 returned |-> outcome.returned ]
    /\ UNCHANGED <<showLanding, user, collections, activeCollectionId,
                   showArchived, isEnrichmentModalOpen, selectedStoreIds,
                   filters, importModalConfig, nextId, isFirebaseConfigured,
                   isSetupOpen, imageState, remote, reader>>

NextUpload ==
    \/ \E files \in FileLists : onChange(files)
    \/ \E files \in FileLists : handleDrop(files)
    \/ \E k \in 1..MaxSelections : onload(k)
    \/ \E k \in 1..MaxSelections : onerror(k)
    \/ \E k \in 1..MaxSelections, outcome \in ParseOutcomes :
          scheduledCallback(k, outcome)

SpecUpload == Init /\ [][NextUpload]_vars

\* a read in progress ends, by onload or by an error, and the scheduler
\* runs what it was handed
SpecUploadFair ==
    /\ SpecUpload
    /\ \A k \in 1..MaxSelections :
          /\ WF_vars(onload(k) \/ onerror(k))
          /\ WF_vars(\E outcome \in ParseOutcomes : scheduledCallback(k, outcome))

----------------------------------------------------------------------------
(* Sessions: guests, collection setup and removal *)

\* LandingPage onEnter
onEnter ==
    /\ showLanding
    /\ showLanding' = FALSE
    /\ last' = [op |-> "onEnter"]
    /\ UNCHANGED <<user, collections, activeCollectionId, showArchived,
                   isEnrichmentModalOpen, selectedStoreIds, filters,
                   importModalConfig, nextId, sideState, remote>>

\* LoginModal onGuestLogin = handleGuestLogin
handleGuestLogin ==
    /\ ~showLanding
    /\ user = null
    /\ user' = "guest"
    /\ last' = [op |-> "handleGuestLogin"]
    /\ UNCHANGED <<showLanding, collections, activeCollectionId, showArchived,
                   isEnrichmentModalOpen, selectedStoreIds, filters,
                   importModalConfig, nextId, sideState, remote>>

\* onAuthStateChanged without a Firebase user: setUser(null)
onSignedOut ==
    /\ isFirebaseConfigured
    /\ user # null
    /\ user' = null
    /\ last' = [op |-> "onSignedOut"]
    /\ UNCHANGED <<showLanding, collections, activeCollectionId, showArchived,
                   isEnrichmentModalOpen, selectedStoreIds, filters,
                   importModalConfig, nextId, sideState, remote>>

\* the effect that opens the setup modal for a user without collections,
\* and Header onCreateCollection
setIsSetupOpen ==
    /\ \/ user # null /\ collections = <<>>
       \/ rendered
    /\ ~isSetupOpen
    /\ isSetupOpen' = TRUE
    /\ last' = [op |-> "setIsSetupOpen"]
    /\ UNCHANGED <<showLanding, user, collections, activeCollectionId,
                   showArchived, isEnrichmentModalOpen, selectedStoreIds,
                   filters, importModalConfig, nextId, isFirebaseConfigured,
                   imageState, fileUploadState, remote>>

\* the collection handleSetupComplete creates
newCollection(id, setupUser, collectionType) ==
    [ id |-> id, ownerId |-> setupUser, name |-> collectionType,
      stores |-> <<>>, folios |-> <<>> ]

\* handleSetupComplete's setDoc of the users document
setupRemotely(written, setupUser) ==
    IF persisted(setupUser)
    THEN written \cup {remoteWrite("setDoc", "users")}
    ELSE written

\* CollectionSetupModal onSetupComplete = handleSetupComplete; the modal is
\* rendered while isSetupOpen.  saveCollection is the one of the render the
\* modal was opened in, with that render's user.
handleSetupComplete(setupUser, collectionType) ==
    /\ rendered
    /\ isSetupOpen
    /\ nextId <= MaxIds
    /\ IF collectionType = null
       THEN UNCHANGED <<user, collections, activeCollectionId, nextId, remote>>
       ELSE /\ user' = setupUser
            /\ collections' =
                  saveCollection(newCollection(randomUUID(nextId), setupUser,
                                               collectionType))
            /\ remote' =
                  setupRemotely(
                    savedRemotely(newCollection(randomUUID(nextId), setupUser,
                                                collectionType)),
                    setupUser)
            /\ activeCollectionId' = randomUUID(nextId)
            /\ nextId' = nextId + 1
    /\ isSetupOpen' = FALSE
    /\ last' = [ op |-> "handleSetupComplete",
                 collectionType |-> collectionType ]
    /\ UNCHANGED <<showLanding, showArchived, isEnrichmentModalOpen,
                   selectedStoreIds, filters, importModalConfig,
                   isFirebaseConfigured, imageState, fileUploadState>>

\* setCollections(prev => prev.filter(c => c.id !== collectionId)), after
\* if (!user) return
removedCollections(collectionId) ==
    IF user = null THEN collections
    ELSE SelectSeq(collections, LAMBDA c : c.id # collectionId)

\* the active collection after handleRemoveCollection: the first remaining
\* one, or null, when the active one is removed
activeAfterRemoval(collectionId) ==
    IF user = null THEN activeCollectionId
    ELSE IF activeCollectionId = collectionId
    THEN LET remaining == SelectSeq(collections, LAMBDA c : c.id # collectionId)
         IN  IF Len(remaining) > 0 THEN remaining[1].id ELSE null
    ELSE activeCollectionId

\* mutant of removedRemotely: the guest's removal is written too
removedRemotely_guestToo(collectionId) ==
    IF user = null THEN remote
    ELSE remote \cup {remoteWrite("deleteDoc", "collections")}

\* handleRemoveCollection's deleteDoc
removedRemotely(collectionId) ==
    IF user = null THEN remote
    ELSE IF persisted(user)
         THEN remote \cup {remoteWrite("deleteDoc", "collections")}
         ELSE remote

\* ProfilePage onRemoveCollection = handleRemoveCollection
handleRemoveCollection(collectionId) ==
    /\ rendered
    /\ collections' = removedCollections(collectionId)
    /\ activeCollectionId' = activeAfterRemoval(collectionId)
    /\ remote' = removedRemotely(collectionId)
    /\ last' = [ op |-> "handleRemoveCollection",
                 collectionId |-> collectionId ]
    /\ UNCHANGED <<viewState, isEnrichmentModalOpen, selectedStoreIds,
                   importModalConfig, nextId>>

\* ProfilePage onRemoveCollection, for a collection of the list it is given
onRemoveCollection(collectionId) ==
    /\ hasCollection(collections, collectionId)
    /\ handleRemoveCollection(collectionId)

\* the collections a snapshot delivers to a session
SessionSnapshots ==
    { <<>>,
      << [ id |-> "c1", stores |-> <<>>, folios |-> <<>> ] >>,
      << [ id |-> "c1", stores |-> <<>>, folios |-> <<>> ],
         [ id |-> "c2", stores |-> <<>>, folios |-> <<>> ] >> }

\* collection types the setup modal hands over; null: the modal was closed
CollectionTypes == { null, "Fashion" }

\* guests and signed-in users creating and removing collections
NextSession ==
    \/ onEnter
    \/ handleGuestLogin
    \/ onAuthStateChanged("u1", null)
    \/ onSignedOut
    \/ \E synced \in SessionSnapshots : onSnapshot(synced)
    \/ setIsSetupOpen
    \/ \E collectionType \in CollectionTypes :
          handleSetupComplete(user, collectionType)
    \/ \E collectionId \in {"c1", "c2", "n1", "n2"} :
          onRemoveCollection(collectionId)

SpecSession == Init /\ [][NextSession]_vars

\* a signed-in user creating, switching, removing and importing collections
NextActive ==
    \/ \E stored \in {null, "c2"} : onAuthStateChanged("u1", stored)
    \/ \E synced \in SessionSnapshots : onSnapshot(synced)
    \/ setIsSetupOpen
    \/ \E collectionType \in CollectionTypes :
          handleSetupComplete(user, collectionType)
    \/ \E collectionId \in {"c1", "c2", "n1", "n2"} :
          onRemoveCollection(collectionId)
    \/ \E id \in {"c1", "c2", "n1", "n2"} : onSwitchCollection(id)
    \/ \E mode \in {"import", "append"} : onOpenImportModal(mode)
    \/ \E stores \in {<<>>, <<ParsedRow(1)>>}, id \in {"c1", "cX"} :
          onComplete(stores, id)

SpecActive == Init /\ [][NextActive]_vars

\* the filtered view of a session that may end
NextView ==
    \/ onAuthStateChanged("u1", null)
    \/ \E synced \in FilterSnapshots : onSnapshot(synced)
    \/ \E f \in FilterStates : setFilters(f)
    \/ \E b \in BOOLEAN : setShowArchived(b)
    \/ onSignedOut

SpecView == Init /\ [][NextView]_vars

----------------------------------------------------------------------------
(* Claims about handleEnrichComplete (checked under SpecMerge) *)

\* the last handler run was handleEnrichComplete
LastEnrich == last.op = "handleEnrichComplete"

\* the active collection's stores and folios before and after that run
PreStores == findCollection(last.collections, last.activeCollectionId).stores
PostStores == findCollection(collections, last.activeCollectionId).stores
PreFolios == findCollection(last.collections, last.activeCollectionId).folios
PostFolios == findCollection(collections, last.activeCollectionId).folios

\* the claims' own notions of an empty field
IsBlank(v) == v = undefined \/ trim(v) = <<>>
IsSentinel(v) == v # undefined /\ toLowerCase(trim(v)) \in NonValues
ClaimWebsiteEmpty(v) == IsBlank(v) \/ IsSentinel(v)
ClaimDescriptionEmpty(v) == IsBlank(v) \/ Len(v) < 10 \/ IsSentinel(v)
ClaimDescriptionKept(v) == v # undefined /\ Len(v) >= 10 /\ ~IsSentinel(v)

\* C1: non-destructive merge.  After handleEnrichComplete every store of the
\* active collection whose website was non-empty (not blank, not a sentinel
\* after trimming) has the website it had, and every store whose description
\* was non-empty (at least 10 characters, not a sentinel) has the description
\* it had, whatever the enriched payload holds.
C1_NonDestructiveMerge ==
    LastEnrich =>
        /\ Len(PostStores) = Len(PreStores)
        /\ \A i \in 1..Len(PreStores) :
              /\ PostStores[i].id = PreStores[i].id
              /\ ~ClaimWebsiteEmpty(PreStores[i].website)
                    => PostStores[i].website = PreStores[i].website
              /\ ClaimDescriptionKept(PreStores[i].description)
                    => PostStores[i].description = PreStores[i].description

\* C1 witness: a merge ran on a store with a real website and a real
\* description, with an enriched entry for it carrying another website and
\* another description.
C1_Witness ==
    /\ LastEnrich
    /\ \E i \in 1..Len(PreStores) :
          /\ PreStores[i].website = str_a_co
          /\ PreStores[i].description = str_fine_goods
          /\ hasEnriched(last.enrichedStores, PreStores[i])
          /\ findEnriched(last.enrichedStores, PreStores[i]).website = str_x_com
          /\ findEnriched(last.enrichedStores, PreStores[i]).description
                = str_new_longer_text

\* C2 (as claimed): a website counts as empty exactly when it is blank
\* (absent, empty or white space only) or a sentinel after trimming, and every
\* such store with a non-empty enriched website ends with the enriched
\* website verbatim.
C2_WebsiteFilledWhenBlankOrSentinel ==
    LastEnrich =>
        \A i \in 1..Len(PreStores) :
            ( /\ ClaimWebsiteEmpty(PreStores[i].website)
              /\ hasEnriched(last.enrichedStores, PreStores[i])
              /\ truthy(findEnriched(last.enrichedStores, PreStores[i]).website) )
            => PostStores[i].website
                  = findEnriched(last.enrichedStores, PreStores[i]).website

\* C3 (as claimed): a description counts as empty exactly when it is blank
\* (absent, empty or white space only), shorter than 10 characters or a
\* sentinel, and every such store with a non-empty enriched description ends
\* with formatDescription of the enriched description.
C3_DescriptionFilledWhenBlankShortOrSentinel ==
    LastEnrich =>
        \A i \in 1..Len(PreStores) :
            ( /\ ClaimDescriptionEmpty(PreStores[i].description)
              /\ hasEnriched(last.enrichedStores, PreStores[i])
              /\ truthy(findEnriched(last.enrichedStores, PreStores[i]).description) )
            => PostStores[i].description
                  = formatDescription(
                      findEnriched(last.enrichedStores, PreStores[i]).description)

\* the scenario of C4: store i held website "N/A" and description "ok" and
\* its enriched entry holds "http://x.com" and "new longer text"
MergeScenario(i) ==
    /\ LastEnrich
    /\ i \in 1..Len(PreStores)
    /\ PreStores[i].website = str_NA
    /\ PreStores[i].description = str_ok
    /\ hasEnriched(last.enrichedStores, PreStores[i])
    /\ findEnriched(last.enrichedStores, PreStores[i]).website = str_x_com
    /\ findEnriched(last.enrichedStores, PreStores[i]).description
          = str_new_longer_text

\* C4 (as claimed): in the merge scenario the result has website
\* "http://x.com" and description "ok", the description being unchanged.
C4_ScenarioDescriptionUnchanged ==
    LastEnrich =>
      \A i \in 1..Len(PreStores) :
        MergeScenario(i) =>
            /\ PostStores[i].website = str_x_com
            /\ PostStores[i].description = str_ok

\* C4 (amended): in the merge scenario the result has website "http://x.com"
\* and the description is replaced by formatDescription("new longer text"),
\* because "ok" is shorter than 10 characters.
C4_ScenarioDescriptionReplaced ==
    LastEnrich =>
      \A i \in 1..Len(PreStores) :
        MergeScenario(i) =>
            /\ PostStores[i].website = str_x_com
            /\ PostStores[i].description = formatDescription(str_new_longer_text)
            /\ PostStores[i].description # PreStores[i].description

\* C4 witness: the merge scenario happened.
C4_Witness == LastEnrich /\ \E i \in 1..Len(PreStores) : MergeScenario(i)

\* C5: merge frame.  handleEnrichComplete keeps the store list's length, ids
\* and order, changes no field other than website and description even when
\* the enriched entry carries other values, leaves every store without an
\* enriched entry of its id as it was, and leaves the folios and the other
\* collections as they were.
C5_MergeFrame ==
    LastEnrich =>
        /\ Len(PostStores) = Len(PreStores)
        /\ \A i \in 1..Len(PreStores) :
              /\ [PostStores[i] EXCEPT !.website = PreStores[i].website,
                                       !.description = PreStores[i].description]
                    = PreStores[i]
              /\ ~hasEnriched(last.enrichedStores, PreStores[i])
                    => PostStores[i] = PreStores[i]
        /\ PostFolios = PreFolios
        /\ Len(collections) = Len(last.collections)
        /\ \A k \in 1..Len(collections) :
              collections[k].id # last.activeCollectionId
                  => collections[k] = last.collections[k]

\* C5 witness: a merge changed one store, through an entry whose other
\* fields differ from the store's, left a store without entry alone, and was
\* given an entry for an id the collection does not hold.
C5_Witness ==
    /\ LastEnrich
    /\ \E i, j \in 1..Len(PreStores) :
          /\ PostStores[i] # PreStores[i]
          /\ findEnriched(last.enrichedStores, PreStores[i]).tags
                # PreStores[i].tags
          /\ ~hasEnriched(last.enrichedStores, PreStores[j])
    /\ \E k \in 1..Len(last.enrichedStores) :
          \A i \in 1..Len(PreStores) :
              last.enrichedStores[k].id # PreStores[i].id

----------------------------------------------------------------------------
(* Claims about filteredStores (checked under SpecFilter) *)

Elems(seq) == { seq[i] : i \in 1..Len(seq) }

SeqIds(stores) == { stores[i].id : i \in 1..Len(stores) }

\* what filteredStores would be under filter state f and archive flag
\* archivedView, everything else as it is
ViewOf(f, archivedView) ==
    IF ~hasActiveCollection \/ user = null THEN <<>>
    ELSE filterAndSort(activeCollection.stores, f, archivedView)

\* the last handler run was handleArchiveStore
LastArchive == last.op = "handleArchiveStore"

\* C6, in every state: every store of filteredStores has isArchived (false
\* when absent) equal to showArchived; no store is in both the active and the
\* archived view; after handleArchiveStore(id, true) the store is not in the
\* active view and after handleArchiveStore(id, false) it is not in the
\* archived view.
C6_ViewsExclusive ==
    /\ \A i \in 1..Len(filteredStores) :
          (filteredStores[i].isArchived = "true") = showArchived
    /\ SeqIds(ViewOf(filters, TRUE)) \cap SeqIds(ViewOf(filters, FALSE)) = {}
    /\ LastArchive =>
          last.storeId \notin SeqIds(ViewOf(filters, ~last.archive))

\* C6, in every step: handleArchiveStore changes nothing but the isArchived
\* flag of the store with the given id.
C6_ArchiveFrame ==
    last'.op = "handleArchiveStore" =>
        /\ Len(collections') = Len(collections)
        /\ \A k \in 1..Len(collections) :
              /\ [collections'[k] EXCEPT !.stores = collections[k].stores]
                    = collections[k]
              /\ Len(collections'[k].stores) = Len(collections[k].stores)
              /\ \A i \in 1..Len(collections[k].stores) :
                    /\ [collections'[k].stores[i] EXCEPT
                          !.isArchived = collections[k].stores[i].isArchived]
                          = collections[k].stores[i]
                    /\ collections[k].stores[i].id # last'.storeId
                          => collections'[k].stores[i] = collections[k].stores[i]
        /\ UNCHANGED <<filters, showArchived, activeCollectionId, user>>

\* C6: archive views are mutually exclusive: every store of filteredStores
\* has isArchived (false when absent) equal to showArchived, so no store is in
\* both views; after handleArchiveStore(id, true) the store is absent from the
\* active view and after handleArchiveStore(id, false) from the archived
\* view, and the archive action changes no other store and no other field.
C6_ArchiveViews == []C6_ViewsExclusive /\ [][C6_ArchiveFrame]_vars

\* C6 witness: a store that was just archived is shown in the archived view
\* and not in the active view, which still shows another store.
C6_Witness ==
    /\ LastArchive
    /\ last.archive
    /\ ~showArchived
    /\ last.storeId \in SeqIds(ViewOf(filters, TRUE))
    /\ Len(filteredStores) > 0

\* C7: the tag facet has AND semantics.  Every store of filteredStores holds
\* every tag of filters.tags; filteredStores is exactly the stores that pass
\* the other facets and hold every selected tag (all of them when no tag is
\* selected); a store named "Zed" with tags ["vegan"] is not in the result
\* for search "zed" and tags ["vegan", "sale"].
C7_TagsAnd ==
    /\ \A i \in 1..Len(filteredStores) :
          Elems(filters.tags) \subseteq Elems(filteredStores[i].tags)
    /\ SeqIds(filteredStores)
          = { s.id : s \in
                { x \in Elems(ViewOf([filters EXCEPT !.tags = <<>>], showArchived)) :
                    Elems(filters.tags) \subseteq Elems(x.tags) } }
    /\ (filters.search = str_zed /\ filters.tags = <<str_vegan, str_sale>>)
          => \A i \in 1..Len(filteredStores) :
                ~( /\ filteredStores[i].store_name = str_Zed
                   /\ filteredStores[i].tags = <<str_vegan>> )

\* C7 witness: search "zed" and tags ["vegan", "sale"] are set while the
\* active view would show the store "Zed" with tags ["vegan"] under the tag
\* ["vegan"] alone.
C7_Witness ==
    /\ filters.search = str_zed
    /\ filters.tags = <<str_vegan, str_sale>>
    /\ \E x \in Elems(ViewOf([filters EXCEPT !.tags = <<str_vegan>>], showArchived)) :
          x.store_name = str_Zed /\ x.tags = <<str_vegan>>

\* C8: the price facet has OR semantics and never admits an unclassified
\* store.  While filters.priceRanges is non-empty every store of
\* filteredStores has a non-empty priceRange whose bucket is one of
\* filters.priceRanges and is not the unclassified value; filteredStores is
\* exactly the stores that pass the other facets and (no bucket selected, or
\* a non-empty price whose bucket is selected).
C8_PriceOr ==
    /\ \A i \in 1..Len(filteredStores) :
          filters.priceRanges # <<>> =>
              /\ filteredStores[i].priceRange # ""
              /\ getPriceBucket(filteredStores[i].priceRange)
                    \in Elems(filters.priceRanges)
              /\ getPriceBucket(filteredStores[i].priceRange) # Unclassified
    /\ SeqIds(filteredStores)
          = { s.id : s \in
                { x \in Elems(ViewOf([filters EXCEPT !.priceRanges = <<>>], showArchived)) :
                    \/ filters.priceRanges = <<>>
                    \/ /\ x.priceRange # ""
                       /\ getPriceBucket(x.priceRange) \in Elems(filters.priceRanges) } }

\* C8 witness: two buckets are selected; a store with a price of the second
\* bucket is shown, and a store with an unclassifiable price that passes the
\* other facets is not.
C8_Witness ==
    /\ filters.priceRanges = <<"low", "high">>
    /\ \E i \in 1..Len(filteredStores) : filteredStores[i].priceRange = "$$$"
    /\ \E x \in Elems(ViewOf([filters EXCEPT !.priceRanges = <<>>], showArchived)) :
          /\ x.priceRange = "free"
          /\ x.id \notin SeqIds(filteredStores)

\* the store's values for a custom field, none when it has no such field
ValuesOf(store, field) ==
    IF field \in DOMAIN store.customFields
    THEN Elems(store.customFields[field]) ELSE {}

\* C9: the custom-field facet.  filteredStores is exactly the stores that
\* pass the other facets and, for every field of filters.customFields with a
\* non-empty option list, have at least one requested option among their
\* values for that field (a store without values for the field fails); the
\* fields are ANDed and a field with an empty option list does not constrain.
C9_CustomFields ==
    SeqIds(filteredStores)
      = { s.id : s \in
            { x \in Elems(ViewOf([filters EXCEPT !.customFields = emptyObject],
                                 showArchived)) :
                \A field \in DOMAIN filters.customFields :
                    \/ filters.customFields[field] = <<>>
                    \/ Elems(filters.customFields[field]) \cap ValuesOf(x, field) # {} } }

\* C9 witness: two fields are requested; one store has a requested option for
\* each and is shown, another has a requested option for the first field and
\* no value for the second and is not shown.
C9_Witness ==
    /\ DOMAIN filters.customFields = {"Style", "Size"}
    /\ \E i \in 1..Len(filteredStores) :
          "xl" \in ValuesOf(filteredStores[i], "Size")
    /\ \E x \in Elems(ViewOf([filters EXCEPT !.customFields = emptyObject],
                             showArchived)) :
          /\ "boho" \in ValuesOf(x, "Style")
          /\ ValuesOf(x, "Size") = {}
          /\ x.id \notin SeqIds(filteredStores)

\* the search facet as the claim states it, for the trimmed, lower-cased term
PassesSearch(store, term) ==
    \/ term = <<>>
    \/ includes(toLowerCase(store.store_name), term)
    \/ includes(toLowerCase(t(store.city)), term)
    \/ includes(toLowerCase(t(store.country)), term)
    \/ \E tag \in Elems(store.tags) : includes(toLowerCase(tag), term)

\* C10: the search facet.  With the search term trimmed and lower-cased,
\* filteredStores is exactly the stores that pass the other facets and for
\* which the term is empty or a substring of the lower-cased store_name,
\* localised city, localised country or one of the tags; a search of white
\* space only gives what an empty search gives.
C10_Search ==
    /\ SeqIds(filteredStores)
          = { s.id : s \in
                { x \in Elems(ViewOf([filters EXCEPT !.search = <<>>], showArchived)) :
                    PassesSearch(x, toLowerCase(trim(filters.search))) } }
    /\ ViewOf([filters EXCEPT !.search = <<" ", " ">>], showArchived)
          = ViewOf([filters EXCEPT !.search = <<>>], showArchived)

\* C10 witness: the search is " VEG "; a store whose name does not hold "veg"
\* is shown for its tag "vegan", and a store that passes the other facets is
\* not shown.
C10_Witness ==
    /\ filters.search = <<" ", "V", "E", "G", " ">>
    /\ \E i \in 1..Len(filteredStores) :
          /\ ~includes(toLowerCase(filteredStores[i].store_name), <<"v", "e", "g">>)
          /\ str_vegan \in Elems(filteredStores[i].tags)
    /\ \E x \in Elems(ViewOf([filters EXCEPT !.search = <<>>], showArchived)) :
          x.id \notin SeqIds(filteredStores)

----------------------------------------------------------------------------
(* Monotonicity and ordering of filteredStores *)

\* the tags a filter state can be extended by
FilterTags == { str_vegan, str_sale, str_Sale, str_VEG }

\* filter state f with one more tag selected
withTag(f, tag) == [f EXCEPT !.tags = Append(@, tag)]

\* filter state f with one more bucket selected
withBucket(f, bucket) == [f EXCEPT !.priceRanges = Append(@, bucket)]

\* C11: tag monotonicity.  For every store list, filter state and tag,
\* adding the tag to filters.tags gives a result that is a subset of
\* filteredStores, so the result never grows.
C11_TagMonotone ==
    \A tag \in FilterTags :
        LET after == ViewOf(withTag(filters, tag), showArchived)
        IN  /\ SeqIds(after) \subseteq SeqIds(filteredStores)
            /\ Len(after) <= Len(filteredStores)

\* C11 witness: the tag "vegan" is selected and shows a store tagged
\* ["vegan"]; selecting "sale" as well takes it out of the result.
C11_Witness ==
    /\ filters.tags = <<str_vegan>>
    /\ \E i \in 1..Len(filteredStores) : filteredStores[i].tags = <<str_vegan>>
    /\ Len(ViewOf(withTag(filters, str_sale), showArchived))
          < Len(filteredStores)

\* C12 as stated: for every store list, filter state (also with no bucket
\* selected) and bucket id, adding the bucket to filters.priceRanges never
\* decreases the size of the result.
C12_PriceMonotoneFromAnyState ==
    \A bucket \in Buckets :
        Len(ViewOf(withBucket(filters, bucket), showArchived))
            >= Len(filteredStores)

\* C12 amended: while at least one bucket is selected, adding a bucket to
\* filters.priceRanges gives a result that holds every store of
\* filteredStores, so the result never shrinks.
C12_PriceMonotoneWhenSelected ==
    filters.priceRanges # <<>> =>
        \A bucket \in Buckets :
            LET after == ViewOf(withBucket(filters, bucket), showArchived)
            IN  /\ SeqIds(filteredStores) \subseteq SeqIds(after)
                /\ Len(after) >= Len(filteredStores)

\* C12 witness: the bucket "high" is selected and shows a store; adding
\* "low" shows one store more.
C12_Witness ==
    /\ filters.priceRanges = <<"high">>
    /\ Len(filteredStores) = 1
    /\ Len(ViewOf(withBucket(filters, "low"), showArchived)) = 2

\* the permutations of 1..n
IndexPermutations(n) ==
    { p \in [1..n -> 1..n] : \A i, j \in 1..n : p[i] = p[j] => i = j }

\* the store names of a list, in order
NamesOf(stores) == [i \in 1..Len(stores) |-> stores[i].store_name]

\* C13: deterministic ordering.  filteredStores is sorted by
\* compareStoreNames on store_name, and filtering any permutation of the
\* store list with the same filter state and archive flag gives the same
\* sequence of store names, also for names that differ only by case.
C13_DeterministicOrder ==
    /\ \A i, j \in 1..Len(filteredStores) :
          i < j => compareStoreNames(filteredStores[i].store_name,
                                     filteredStores[j].store_name) <= 0
    /\ (hasActiveCollection /\ user # null) =>
          \A p \in IndexPermutations(Len(activeCollection.stores)) :
              NamesOf(filterAndSort(
                        [i \in 1..Len(activeCollection.stores) |->
                            activeCollection.stores[p[i]]],
                        filters, showArchived))
                = NamesOf(filteredStores)

\* C13 witness: the store list holds "acme" before "Acme" and both are
\* shown, "Acme" first.
C13_Witness ==
    /\ hasActiveCollection
    /\ Len(activeCollection.stores) = 2
    /\ activeCollection.stores[1].store_name = str_acme
    /\ activeCollection.stores[2].store_name = str_Acme
    /\ NamesOf(filteredStores) = <<str_Acme, str_acme>>

----------------------------------------------------------------------------
(* Claims about adding and importing stores *)

\* the last handler run was handleAddStore
LastAdd == last.op = "handleAddStore"

\* the fields a payload may supply and the created store has to keep
SuppliedFields ==
    { "description", "country", "city", "sustainability", "rating",
      "customFields", "tags", "priceRange" }

\* the neutral default of a field
neutral(field) ==
    CASE field = "rating" -> 0
      [] field = "customFields" -> emptyObject
      [] field = "priceRange" -> ""
      [] OTHER -> <<>>

\* the store handleAddStore has just appended to the active collection
createdStore == activeCollection.stores[Len(activeCollection.stores)]

\* C14: store normalization on manual add.  After handleAddStore(storeData)
\* the created store keeps every field the payload supplies among
\* description, country, city, sustainability, rating, customFields, tags
\* and priceRange; the fields it leaves unset hold the neutral default; id,
\* collectionId and addedBy are the fresh id, the active collection's id and
\* the current user, whatever the payload says.
C14_AddDefaultsOnlyUnsetFields ==
    LastAdd =>
        /\ \A field \in SuppliedFields :
              createdStore[field] =
                 IF field \in DOMAIN last.storeData
                 THEN last.storeData[field] ELSE neutral(field)
        /\ createdStore.id = randomUUID(nextId - 1)
        /\ createdStore.collectionId = activeCollection.id
        /\ createdStore.addedBy = user

\* tags that are lower-case, trimmed and free of duplicates
normalizedTags(tags) ==
    /\ \A i \in 1..Len(tags) : tags[i] = trim(toLowerCase(tags[i]))
    /\ \A i, j \in 1..Len(tags) : tags[i] = tags[j] => i = j

\* C15: tag normalization invariant.  Every store held in any collection has
\* tags that are all lower-case, trimmed and free of duplicates.
C15_TagsNormalized ==
    \A k \in 1..Len(collections) :
        \A i \in 1..Len(collections[k].stores) :
            normalizedTags(collections[k].stores[i].tags)

\* C16, in every state: every store of a collection's list carries that
\* collection's id as its collectionId.
C16_StoresBelongToTheirCollection ==
    \A k \in 1..Len(collections) :
        \A i \in 1..Len(collections[k].stores) :
            collections[k].stores[i].collectionId = collections[k].id

\* C16, in every step: a store that is held before and after the step has
\* the same collectionId.
C16_CollectionIdNeverChanges ==
    \A k \in 1..Len(collections), n \in 1..Len(collections') :
        \A i \in 1..Len(collections[k].stores),
           j \in 1..Len(collections'[n].stores) :
            collections[k].stores[i].id = collections'[n].stores[j].id
               => collections[k].stores[i].collectionId
                    = collections'[n].stores[j].collectionId

\* C16: ownership invariant.  After any sequence of add, edit, import,
\* sample-load, enrich, archive and delete operations every store of a
\* collection's list has that collection's id as collectionId, and no
\* operation changes the collectionId of an existing store.
C16_Ownership ==
    []C16_StoresBelongToTheirCollection /\ [][C16_CollectionIdNeverChanges]_vars

\* C17: store cap invariant.  After any sequence of manual adds, imports,
\* sample-data loads and enrichment completions every collection holds at
\* most MAX_STORES_PER_COLLECTION stores.
C17_StoreCap ==
    \A k \in 1..Len(collections) :
        Len(collections[k].stores) <= MAX_STORES_PER_COLLECTION

\* the smaller of two numbers
Min(a, b) == IF a < b THEN a ELSE b

\* store is what the import made of the parsed row
importedFrom(store, row) ==
    /\ store.store_name = row.store_name
    /\ store.website = row.website
    /\ store.description = row.description

\* the id of the collection an import with target id writes to: the
\* collection of that id, or the active one when there is none
importTargetId(id) ==
    IF hasCollection(collections, id) THEN id ELSE activeCollectionId

\* C18, in every step that completes an import of the rows `stores` into
\* target id: with previous == the target's stores before the step and
\* new == its stores after it, in append mode new is previous followed by
\* the imported rows in parsed order, cut to the first
\* MAX_STORES_PER_COLLECTION entries; in import mode new is the first
\* MAX_STORES_PER_COLLECTION imported rows and holds no previous store; the
\* import completes (the modal closes, the collection is saved) also when
\* the cap is exceeded.
C18_ImportStep ==
    last'.op = "onComplete" =>
        LET previous == findCollection(collections, importTargetId(last'.id)).stores
            new == findCollection(collections', importTargetId(last'.id)).stores
            rows == last'.stores
            kept == IF last'.mode = "append" THEN Len(previous) ELSE 0
        IN  /\ ~importModalConfig'.isOpen
            /\ Len(new) = Min(kept + Len(rows), MAX_STORES_PER_COLLECTION)
            /\ \A i \in 1..Len(new) :
                  IF i <= kept THEN new[i] = previous[i]
                  ELSE importedFrom(new[i], rows[i - kept])
            /\ last'.mode = "import" => SeqIds(new) \cap SeqIds(previous) = {}

\* C18: import keeps the accepted prefix.
C18_ImportKeepsPrefix == [][C18_ImportStep]_vars

\* C18 witness: an append of three rows into a collection that held the
\* store s1 has kept s1 in front, is cut to the cap and ends with an
\* imported row; the other rows are dropped.
C18_Witness ==
    /\ last.op = "onComplete"
    /\ last.mode = "append"
    /\ Len(last.stores) = 3
    /\ hasCollection(collections, last.id)
    /\ LET new == findCollection(collections, last.id).stores
       IN  /\ Len(new) = MAX_STORES_PER_COLLECTION
           /\ new[1].id = "s1"
           /\ importedFrom(new[Len(new)], last.stores[Len(new) - 1])

----------------------------------------------------------------------------
(* Claims about folios *)

\* every folio of every collection
AllFolios(colls) ==
    UNION { Elems(colls[k].folios) : k \in 1..Len(colls) }

\* C19, in every state: no folio's storeIds holds a store id twice.
C19_NoDuplicateIds ==
    \A f \in AllFolios(collections) :
        \A i, j \in 1..Len(f.storeIds) : f.storeIds[i] = f.storeIds[j] => i = j

\* C19, in every step: handleDropToFolio of an id the folio already holds
\* leaves the folios as they are.
C19_AddingPresentIdChangesNothing ==
    (/\ last'.op = "handleDropToFolio"
     /\ hasActiveCollection
     /\ \E f \in Elems(activeCollection.folios) :
           f.id = last'.folioId /\ last'.storeId \in Elems(f.storeIds))
        => collections' = collections

\* C19: folio membership has no duplicates.  After any sequence of
\* handleDropToFolio, handleBulkAddToFolio, handleSyncFolioStores,
\* handleRemoveFromFolio and handleClearFolio calls every folio's storeIds
\* holds each store id at most once, and adding an id that is already
\* present leaves storeIds unchanged.
C19_FolioMembersUnique ==
    []C19_NoDuplicateIds /\ [][C19_AddingPresentIdChangesNothing]_vars

\* the collection of colls with that id holds a store with that id
holdsStore(colls, collectionId, storeId) ==
    \E k \in 1..Len(colls) :
        /\ colls[k].id = collectionId
        /\ storeId \in SeqIds(colls[k].stores)

\* C20, in every step: a store id that the step removes from a collection
\* is in no storeIds of that collection's folios after the step.
C20_RemovedIdsLeaveFolios ==
    \A k \in 1..Len(collections') :
        \A f \in Elems(collections'[k].folios) :
            \A id \in Elems(f.storeIds) :
                holdsStore(collections, collections'[k].id, id)
                   => holdsStore(collections', collections'[k].id, id)

\* C20: store removal is reflected in folios.  After any operation that
\* removes stores from a collection (handleDeleteStore, handleBulkDelete,
\* clearing the collection, an import in import mode) no folio of that
\* collection references a removed store id.
C20_RemovalReflectedInFolios == [][C20_RemovedIdsLeaveFolios]_vars

----------------------------------------------------------------------------
(* Claims about image generation (checked under SpecImage) *)

\* the step is the completion of a handleGenerateImage call
SettledStep == last'.op = "generationSettled"

\* store after is store before, but for an imageUrl the completion gave it
sameButImage(before, after, storeId) ==
    /\ after.id = before.id
    /\ IF before.id = storeId
       THEN \A k \in (DOMAIN before \cup DOMAIN after) \ {"imageUrl"} :
               k \in DOMAIN before /\ k \in DOMAIN after /\ after[k] = before[k]
       ELSE after = before

\* the collections after are the collections before, but for that imageUrl
onlyImageSet(before, after, storeId) ==
    /\ Len(after) = Len(before)
    /\ \A i \in 1..Len(before) :
          /\ after[i].id = before[i].id
          /\ after[i].folios = before[i].folios
          /\ Len(after[i].stores) = Len(before[i].stores)
          /\ \A j \in 1..Len(before[i].stores) :
                sameButImage(before[i].stores[j], after[i].stores[j], storeId)

\* C21: a successful completion of handleGenerateImage changes nothing in
\* the collections but the imageUrl of its store: every store and folio the
\* collection holds when the call completes, with every field and every
\* imageUrl saved while the call was in flight, is there afterwards, so that
\* two calls for distinct stores leave both with their imageUrl
C21_CompletionKeepsCatalog ==
    [][ (SettledStep /\ last'.resolved)
           => onlyImageSet(collections, collections', last'.storeId) ]_vars

\* C23: a rejected generateAestheticImage saves nothing (the collections,
\* with every store, imageUrl and folio, and the remote store stay as they
\* are) and takes only its own call out of the pending ones
C23_FailureLeavesCatalog ==
    [][ (SettledStep /\ ~last'.resolved)
           => /\ collections' = collections
              /\ remote' = remote
              /\ BagCardinality(pendingGenerations')
                    = BagCardinality(pendingGenerations) - 1
              /\ \A c \in BagToSet(pendingGenerations) :
                    CopiesIn(c, pendingGenerations')
                       >= CopiesIn(c, pendingGenerations)
                            - (IF c.storeId = last'.storeId THEN 1 ELSE 0) ]_vars

\* a generation was rejected after the collection had changed under it,
\* with another generation still pending
C23_Witness ==
    /\ last.op = "generationSettled"
    /\ ~last.resolved
    /\ \E c \in BagToSet(pendingGenerations) :
          /\ c.storeId # last.storeId
          /\ c.activeCollection # activeCollection

\* the ids of the pending calls
pendingIds == { c.storeId : c \in BagToSet(pendingGenerations) }

\* a store id is in generatingImageIds exactly while a call for it is pending
C24_GeneratingIffPending == generatingImageIds = pendingIds

\* a completion leaves the ids of the other pending calls in the set, and a
\* call for an id the active collection has not leaves the set alone
C24_Step ==
    /\ SettledStep =>
          \A c \in BagToSet(pendingGenerations') :
              c.storeId \in generatingImageIds'
    /\ (last'.op = "handleGenerateImage" /\ ~last'.started) =>
          generatingImageIds' = generatingImageIds

\* C24: a store id is in generatingImageIds exactly while a
\* handleGenerateImage call for it is in flight; a completion, by success or
\* by failure, removes its id and leaves the ids of the other calls in
\* flight; a call for an id the active collection has not adds nothing
C24_Bookkeeping == []C24_GeneratingIffPending /\ [][C24_Step]_vars

----------------------------------------------------------------------------
(* Claims about FileUpload (checked under SpecUpload and SpecUploadFair) *)

\* the file is CSV neither by its MIME type nor by its extension
notCsv(file) ==
    /\ file.type # "text/csv"
    /\ SubSeq(file.name, Len(file.name) - 3, Len(file.name)) # <<".", "c", "s", "v">>

RECURSIVE uploadCalls(_)
\* how often onFileUpload has been called
uploadCalls(log) ==
    IF log = <<>> THEN 0
    ELSE log[Len(log)].uploads + uploadCalls(SubSeq(log, 1, Len(log) - 1))

\* every accepted file has led to at most one call of onFileUpload, made
\* once its read and its parse were over, and to no error message with it
C22_OneUploadPerFile ==
    \A k \in 1..Len(uploadLog) :
        /\ uploadLog[k].uploads <= 1
        /\ uploadLog[k].uploads = 1 =>
              /\ uploadLog[k].parsed
              /\ uploadLog[k].errors = 0
              /\ k \notin reader \cup scheduler

\* onFileUpload is called only by the scheduled callback, in a run that
\* sets no error message; a file that is not CSV sets the error and starts
\* neither a read nor a parse, nor calls onFileUpload or sets isProcessing
C22_Step ==
    /\ uploadCalls(uploadLog') # uploadCalls(uploadLog) =>
          /\ last'.op = "scheduledCallback"
          /\ error' = error
    /\ ( /\ last'.op \in {"handleFileChange", "handleDrop"}
         /\ ~isProcessing
         /\ Len(last'.files) > 0
         /\ notCsv(last'.files[1]) ) =>
          /\ error' = "Invalid file type. Please upload a CSV file."
          /\ UNCHANGED <<isProcessing, reader, scheduler, uploadLog>>

C25_AtMostOneInFlight == Cardinality(reader \cup scheduler) <= 1

\* a file dropped while isProcessing changes nothing
C25_DropIgnored ==
    (last'.op = "handleDrop" /\ isProcessing) => UNCHANGED fileUploadState

\* C25: after an accepted file selection isProcessing returns to false,
\* whether the parse succeeds, parseCSV throws or the read fails; while it
\* is true a dropped file is ignored, so that at most one read or parse is
\* in flight
C25_ProcessingClears ==
    /\ isProcessing ~> ~isProcessing
    /\ []C25_AtMostOneInFlight
    /\ [][C25_DropIgnored]_vars

----------------------------------------------------------------------------
(* Claims about sessions and the active collection *)

\* the session writes nothing to the remote store
unpersisted == user = "guest" \/ ~isFirebaseConfigured

\* collections a caller may hand to saveCollection
SavedCollections ==
    { [ id |-> id, stores |-> <<>>, folios |-> <<>> ] : id \in {"c1", "n1"} }

\* without a user saveCollection and handleRemoveCollection change neither
\* the collections, nor the active collection, nor the remote store
C26_NothingWithoutUser ==
    user = null =>
        /\ \A c \in SavedCollections :
              saveCollection(c) = collections /\ savedRemotely(c) = remote
        /\ \A id \in {"c1", "n1"} :
              /\ removedCollections(id) = collections
              /\ removedRemotely(id) = remote
              /\ activeAfterRemoval(id) = activeCollectionId

\* a step of a guest's or an unconfigured session writes nothing to the
\* remote store, and its setup completion and removal still change the
\* collections in memory
C26_Step ==
    unpersisted =>
        /\ remote' = remote
        /\ (last'.op = "handleSetupComplete" /\ last'.collectionType # null) =>
              /\ Len(collections') = Len(collections) + 1
              /\ collections'[Len(collections')].id = activeCollectionId'
              /\ collections'[Len(collections')].name = last'.collectionType
        /\ last'.op = "handleRemoveCollection" =>
              /\ Len(collections') = Len(collections) - 1
              /\ ~hasCollection(collections', last'.collectionId)

\* C26: for the user 'guest', or when Firebase is not configured, no
\* operation issues a setDoc or deleteDoc while the collections in memory
\* are still updated; without a user saveCollection and
\* handleRemoveCollection change nothing
C26_GuestNeverPersisted == []C26_NothingWithoutUser /\ [][C26_Step]_vars

\* a guest of a configured session has created two collections and removed
\* one, and nothing was written
C26_Witness ==
    /\ user = "guest"
    /\ isFirebaseConfigured
    /\ last.op = "handleRemoveCollection"
    /\ Len(collections) = 1
    /\ remote = {}

\* the active collection, when there is one, is in the list
activeIsListed ==
    activeCollectionId = null \/ hasCollection(collections, activeCollectionId)

\* after creation, switching, removal, import completion and snapshot
\* synchronisation the active collection is null or in the list
C27_ActiveListed ==
    last.op \in { "handleSetupComplete", "onSwitchCollection",
                  "handleRemoveCollection", "onComplete", "onSnapshot" }
       => activeIsListed

\* removing the active collection makes the first remaining one active, or
\* none; removing another leaves the active one
C27_RemovalStep ==
    last'.op = "handleRemoveCollection" =>
        IF activeCollectionId = last'.collectionId
        THEN IF collections' = <<>> THEN activeCollectionId' = null
             ELSE activeCollectionId' = collections'[1].id
        ELSE activeCollectionId' = activeCollectionId

\* C27: after any sequence of collection creation, switching, removal,
\* import completion and snapshot synchronisation activeCollectionId is
\* null or the id of a collection of the list; removing the active
\* collection makes the first remaining one active, or null when none
\* remains; removing another collection leaves activeCollectionId unchanged
C27_ActiveCollectionValid == []C27_ActiveListed /\ [][C27_RemovalStep]_vars

----------------------------------------------------------------------------
(* Filtering reads only (checked under SpecView) *)

\* how often store occurs in stores
occurrences(store, stores) ==
    Cardinality({ i \in 1..Len(stores) : stores[i] = store })

\* filteredStores holds only stores of the active collection, each at most
\* as often as it occurs there, and the stores it was computed from are as
\* they were; without a user or without an active collection it is empty
C28_Selective ==
    /\ (user = null \/ ~hasActiveCollection) => filteredStores = <<>>
    /\ hasActiveCollection =>
          /\ \A i \in 1..Len(filteredStores) :
                occurrences(filteredStores[i], filteredStores)
                   <= occurrences(filteredStores[i], activeCollection.stores)
          /\ storesAfterFiltering(activeCollection.stores, filters, showArchived)
                = activeCollection.stores

\* the memo runs anew when the filter state or the archive switch changes:
\* such a step leaves the collections, with their stores and folios, as
\* they are, and changes of the filter state only what the handler set
C28_FrameStep ==
    /\ last'.op \in {"setFilters", "setShowArchived"} =>
          collections' = collections
    /\ last'.op = "setShowArchived" => filters' = filters

C28_WitnessNoUser ==
    /\ user = null
    /\ hasActiveCollection
    /\ Len(activeCollection.stores) > 0

====
